---- MODULE Spec2Model ----
(***************************************************************************)
(* Commax IoT cloud bridge: the auth session (auth.py), the device         *)
(* registry client and command dispatcher (auth.py) and the polling        *)
(* coordinator (__init__.py).  Every coroutine is modelled step by step:   *)
(* one step runs from one network await to the next.  The vendor's         *)
(* replies are chosen nondeterministically from small sets.                *)
(***************************************************************************)
EXTENDS Integers, Sequences, FiniteSets, TLC

VARIABLES
    access_token,        \* CommaxAuthManager._access_token
    refresh_token,       \* CommaxAuthManager._refresh_token
    token_expires_at,    \* CommaxAuthManager._token_expires_at
    authenticated,       \* CommaxAuthManager._authenticated
    now,                 \* int(time.time())
    devices,             \* CommaxDataUpdateCoordinator._devices
    last_update_success, \* DataUpdateCoordinator.last_update_success
    task,                \* the coroutine calls in progress, one frame each
    history,             \* what the authenticate() calls so far have done
    control,             \* the entity control action in progress
    inventory,           \* the records the vendor's device list is made of
    setup,               \* async_setup_entry: its progress, the entities
    speed                \* a call of CommaxFan._percentage_to_speed

vars == <<access_token, refresh_token, token_expires_at, authenticated,
          now, devices, last_update_success, task, history, control,
          inventory, setup, speed>>

authVars == <<access_token, refresh_token, token_expires_at, authenticated>>

----------------------------------------------------------------------------
(* Bounds of the model *)

\* the clock advances in steps of TickSeconds, at most MaxTicks times
TickSeconds == 1800
MaxTicks == 1
\* the clock value at construction
StartTime == 900

----------------------------------------------------------------------------
(* Program constants *)

API_SUCCESS_CODE == "E0000"
TOKEN_EXPIRE_BUFFER == 1800
DEFAULT_EXPIRE_IN == 3600
HTTP_OK == 200
HTTP_UNAUTHORIZED == 401

\* Python's None for the string-valued fields
None == "None"
\* Python's None for _token_expires_at; "not self._token_expires_at" is
\* true of None and of 0 alike
NoExpiry == 0

----------------------------------------------------------------------------
(* The vendor's replies *)

\* a reply to the authorization POST
AuthReplies ==
    {[exc |-> TRUE, status |-> 0, resultCode |-> None, accessToken |-> None,
      refreshToken |-> None, expireInKind |-> "absent", expireIn |-> 0]}
    \cup
    {[exc |-> FALSE, status |-> 500, resultCode |-> None, accessToken |-> None,
      refreshToken |-> None, expireInKind |-> "absent", expireIn |-> 0]}
    \cup
    {[exc |-> FALSE, status |-> HTTP_OK, resultCode |-> "E9999",
      accessToken |-> "tokB", refreshToken |-> "refB",
      expireInKind |-> "number", expireIn |-> 3600]}
    \cup
    {[exc |-> FALSE, status |-> HTTP_OK, resultCode |-> API_SUCCESS_CODE,
      accessToken |-> p[1], refreshToken |-> p[2],
      expireInKind |-> k[1], expireIn |-> k[2]] :
        p \in {<<"tokA", "refA">>, <<"tokB", "refB">>},
        k \in {<<"absent", 0>>, <<"malformed", 0>>, <<"number", 900>>}}

----------------------------------------------------------------------------
(* Auth session *)

Session == [access_token |-> access_token, refresh_token |-> refresh_token,
            token_expires_at |-> token_expires_at,
            authenticated |-> authenticated]

\* CommaxAuthManager.__init__
InitSession == [access_token |-> None, refresh_token |-> None,
                token_expires_at |-> NoExpiry, authenticated |-> FALSE]

\* a slip that gives every token the default lifetime
SessionOf_defaultTtl(r, t) ==
    [access_token |-> r.accessToken, refresh_token |-> r.refreshToken,
     token_expires_at |-> t + DEFAULT_EXPIRE_IN,
     authenticated |-> TRUE]

\* the session a success reply describes
SessionOf(r, t) ==
    [access_token |-> r.accessToken, refresh_token |-> r.refreshToken,
     token_expires_at |->
        t + (IF r.expireInKind = "absent" THEN DEFAULT_EXPIRE_IN ELSE r.expireIn),
     authenticated |-> TRUE]

AuthReplyOk(r) ==
    ~r.exc /\ r.status = HTTP_OK /\ r.resultCode = API_SUCCESS_CODE

\* authenticate(): the session after the reply r arrived at time t, and the
\* value returned.  The assignments happen one after the other; a
\* non-numeric expireIn raises in "int(time.time()) + expire_in", after the
\* two tokens were stored, and the exception handler returns False.
Authenticate(s, r, t) ==
    IF ~AuthReplyOk(r)
    THEN [session |-> s, ok |-> FALSE]
    ELSE IF r.expireInKind = "malformed"
         THEN [session |-> [s EXCEPT !.access_token = r.accessToken,
                                     !.refresh_token = r.refreshToken],
               ok |-> FALSE]
         ELSE [session |-> SessionOf(r, t), ok |-> TRUE]

\* a slip that renews only after the buffer instant has passed
NearExpiry_strict(s, t) == t > s.token_expires_at - TOKEN_EXPIRE_BUFFER

\* the test of refresh_token_if_needed: the token is within the buffer
NearExpiry(s, t) == t >= s.token_expires_at - TOKEN_EXPIRE_BUFFER

----------------------------------------------------------------------------
(* Devices *)

\* a sub-device record of the vendor's device list
SubDevice(su, so, ty, v) ==
    [subUuid |-> su, sort |-> so, type |-> ty, value |-> v]

\* an element of the fetched list; isDict is false of an element that is
\* not a JSON object, on which device.get raises
RawDevice(u, v) ==
    [isDict |-> TRUE, rootUuid |-> u, nickname |-> "lamp",
     rootDevice |-> "switch", commaxDevice |-> "light",
     subDevice |-> <<SubDevice("s1", "switchBinary", "readWrite", v),
                     SubDevice("s2", "fanMode", "readWrite", "auto")>>]

\* a device record of the given class with the given sub-devices
Device(u, class, subs) ==
    [isDict |-> TRUE, rootUuid |-> u, nickname |-> class,
     rootDevice |-> "switch", commaxDevice |-> class, subDevice |-> subs]

NotADict ==
    [isDict |-> FALSE, rootUuid |-> None, nickname |-> None,
     rootDevice |-> None, commaxDevice |-> None, subDevice |-> <<>>]

\* the elements the vendor's list is made of: two devices, a record
\* without rootUuid and a malformed element
DevicePool ==
    {RawDevice("d1", "on"), RawDevice("d2", "on"), RawDevice(None, "on"),
     NotADict}

\* the longest device list the vendor returns
MaxDevices == 2

\* the lists the vendor can return
FetchLists ==
    UNION {[1..n -> inventory] : n \in 0..MaxDevices}

\* the coordinator's cache before the first refresh
EmptyCache == [u \in {} |-> NotADict]

\* a reply to the device-list GET; shape tells where the body carries the
\* device records: nested under resource.devices.object, or flat under
\* resultBody.device
ListReplies ==
    {[exc |-> TRUE, status |-> 0, resultCode |-> None, shape |-> "nested",
      devices |-> <<>>]}
    \cup
    {[exc |-> FALSE, status |-> st, resultCode |-> None, shape |-> "nested",
      devices |-> <<>>] : st \in {HTTP_UNAUTHORIZED, 500}}
    \cup
    {[exc |-> FALSE, status |-> HTTP_OK, resultCode |-> "E9999",
      shape |-> "nested", devices |-> <<RawDevice("d2", "on")>>]}
    \cup
    {[exc |-> FALSE, status |-> HTTP_OK, resultCode |-> API_SUCCESS_CODE,
      shape |-> "nested", devices |-> l] : l \in FetchLists}
    \cup
    {[exc |-> FALSE, status |-> HTTP_OK, resultCode |-> API_SUCCESS_CODE,
      shape |-> "flat", devices |-> <<RawDevice("d1", "on")>>]}

\* a reply to the command POST; hasBody is false of a reply whose body
\* parses to nothing (empty object, null)
CommandReplies ==
    {[exc |-> TRUE, status |-> 0, hasBody |-> FALSE, resultCode |-> None]}
    \cup
    {[exc |-> FALSE, status |-> st, hasBody |-> TRUE, resultCode |-> c] :
        st \in {HTTP_UNAUTHORIZED, 500}, c \in {API_SUCCESS_CODE, "E9999"}}
    \cup
    {[exc |-> FALSE, status |-> HTTP_OK, hasBody |-> FALSE, resultCode |-> None]}
    \cup
    {[exc |-> FALSE, status |-> HTTP_OK, hasBody |-> TRUE, resultCode |-> c] :
        c \in {API_SUCCESS_CODE, "E9999", None}}

----------------------------------------------------------------------------
(* Entity control actions *)

DEVICE_OFF == "off"
DEVICE_ON == "on"

\* the encodings tried after the first send failed (light.py and
\* switch.py hold the same two lists)
alternative_values(value) ==
    IF value = DEVICE_ON THEN <<"on", "true", "True", "1", "ON">>
    ELSE IF value = DEVICE_OFF THEN <<"off", "false", "False", "0", "OFF">>
    ELSE <<>>

\* the device the entities of the model belong to
EntityRoot == "d1"

\* a sub-device payload of a command
Payload(su, v) == [subUuid |-> su, value |-> v]

\* stands for None where a percentage is expected; a percentage that
\* _speed_to_percentage computes is at least 1
NoPercentage == 0

\* _percentage_to_speed has not been called
NoSpeedCall ==
    [options |-> <<>>, percentage |-> 0, called |-> FALSE, selected |-> None,
     current |-> None,       \* the speed _speed_to_percentage is given
     converted |-> FALSE,    \* ... it has returned
     percent |-> NoPercentage, \* ... its result
     returned |-> FALSE,     \* that result has been converted back
     back |-> None]          \* ... into this speed

\* async_setup_entry has not run: no platform is set up, no entity exists
NotSetUp ==
    [pc |-> "none",          \* where async_setup_entry stands
     platforms |-> <<>>,     \* the platforms whose async_setup_entry ran
     entities |-> {},        \* the entities they added
     refreshes |-> 0,        \* the refreshes completed since setup began
     first |-> EmptyCache]   \* coordinator.data after the first of them

DEVICE_TYPE_LIGHT == "light"
DEVICE_TYPE_BOILER == "boiler"
DEVICE_TYPE_SWITCH == "standbyPowerSwitch"
DEVICE_TYPE_FAN == "fanSystem"
SUBDEVICE_SWITCH_BINARY == "switchBinary"
SUBDEVICE_THERMOSTAT_MODE == "thermostatMode"
SUBDEVICE_THERMOSTAT_SETPOINT == "thermostatSetpoint"
SUBDEVICE_FAN_MODE == "fanMode"
\* fan.py imports this name; const.py does not define it
SUBDEVICE_FAN_SPEED == "fanSpeed"

\* the platforms async_setup_entry forwards the entry to
PLATFORMS == <<"light", "climate", "switch">>

\* the positions of the writable sub-devices of dev with the given sort
Writable(dev, sort) ==
    {i \in DOMAIN dev.subDevice :
        dev.subDevice[i].sort = sort /\ dev.subDevice[i].type = "readWrite"}

\* the subUuid an entity keeps for a sort: CommaxLight and CommaxSwitch
\* stop at the first writable sub-device of the sort, CommaxThermostat and
\* CommaxFan keep the last one; None when there is none
Selected(dev, sort, firstMatch) ==
    LET S == Writable(dev, sort)
    IN  IF S = {} THEN None
        ELSE IF firstMatch
             THEN dev.subDevice[CHOOSE i \in S : \A j \in S : i <= j].subUuid
             ELSE dev.subDevice[CHOOSE i \in S : \A j \in S : i >= j].subUuid

\* the entity a platform constructs from a device record: __init__ copies
\* rootUuid, nickname and rootDevice and selects the sub-devices it will
\* command
Entity(platform, dev) ==
    [platform |-> platform, root_uuid |-> dev.rootUuid,
     nickname |-> dev.nickname, rootDevice |-> dev.rootDevice,
     switch_subdevice |->
        IF platform = "climate" THEN None
        ELSE Selected(dev, SUBDEVICE_SWITCH_BINARY, platform # "fan"),
     mode_subdevice |->
        IF platform = "climate"
        THEN Selected(dev, SUBDEVICE_THERMOSTAT_MODE, FALSE)
        ELSE IF platform = "fan"
             THEN Selected(dev, SUBDEVICE_FAN_MODE, FALSE) ELSE None,
     setpoint_subdevice |->
        IF platform = "climate"
        THEN Selected(dev, SUBDEVICE_THERMOSTAT_SETPOINT, FALSE) ELSE None,
     speed_subdevice |->
        IF platform = "fan"
        THEN Selected(dev, SUBDEVICE_FAN_SPEED, FALSE) ELSE None]

\* the test a platform's async_setup_entry applies to a cached record
Registers(platform, dev) ==
    CASE platform = "light" ->
            /\ dev.commaxDevice = DEVICE_TYPE_LIGHT
            /\ Writable(dev, SUBDEVICE_SWITCH_BINARY) # {}
      [] platform = "climate" ->
            dev.commaxDevice = DEVICE_TYPE_BOILER
      [] platform = "switch" ->
            /\ dev.commaxDevice = DEVICE_TYPE_SWITCH
            /\ dev.rootDevice = "switch"
            /\ Writable(dev, SUBDEVICE_SWITCH_BINARY) # {}
      [] platform = "fan" ->
            /\ dev.commaxDevice = DEVICE_TYPE_FAN
            /\ dev.rootDevice = "switch"
            /\ Writable(dev, SUBDEVICE_SWITCH_BINARY) # {}

\* the entities a platform's async_setup_entry adds for coordinator.data
PlatformEntities(platform, data) ==
    {Entity(platform, data[u]) : u \in {v \in DOMAIN data :
                                          Registers(platform, data[v])}}

\* fan.py imports this name; const.py does not define it
FAN_DEFAULT_MODE == "auto"

\* one change a service call asks for
Change(sort, value) == [sort |-> sort, value |-> value]

\* the service calls of a platform's entities, as the changes they ask
\* for: turn_on and turn_off of a light or switch; set_hvac_mode(off) and
\* set_temperature of a boiler; turn_off and turn_on of a fan with a mode
\* sub-device
ServiceCalls(platform) ==
    CASE platform \in {"light", "switch"} ->
            {<<Change(SUBDEVICE_SWITCH_BINARY, DEVICE_ON)>>,
             <<Change(SUBDEVICE_SWITCH_BINARY, DEVICE_OFF)>>}
      [] platform = "climate" ->
            {<<Change(SUBDEVICE_THERMOSTAT_MODE, DEVICE_OFF)>>,
             <<Change(SUBDEVICE_THERMOSTAT_SETPOINT, "23")>>}
      [] platform = "fan" ->
            {<<Change(SUBDEVICE_SWITCH_BINARY, DEVICE_OFF)>>,
             <<Change(SUBDEVICE_SWITCH_BINARY, DEVICE_ON),
               Change(SUBDEVICE_FAN_MODE, FAN_DEFAULT_MODE)>>}

\* the subUuid the entity kept for a sort when it was constructed
TargetOf(e, sort) ==
    CASE sort = SUBDEVICE_SWITCH_BINARY -> e.switch_subdevice
      [] sort \in {SUBDEVICE_THERMOSTAT_MODE, SUBDEVICE_FAN_MODE} ->
            e.mode_subdevice
      [] sort = SUBDEVICE_THERMOSTAT_SETPOINT -> e.setpoint_subdevice
      [] sort = SUBDEVICE_FAN_SPEED -> e.speed_subdevice

\* an element of the subDevice array of a command
SubPayload(su, sort, v) ==
    [value |-> v, funcCommand |-> "set", type |-> "readWrite",
     subUuid |-> su, sort |-> sort]

\* the sorts an entity kept a sub-device for, in a fixed order
KeptSorts(e) ==
    SelectSeq(<<SUBDEVICE_SWITCH_BINARY,
                IF e.platform = "climate" THEN SUBDEVICE_THERMOSTAT_MODE
                                          ELSE SUBDEVICE_FAN_MODE,
                SUBDEVICE_THERMOSTAT_SETPOINT, SUBDEVICE_FAN_SPEED>>,
              LAMBDA s : TargetOf(e, s) # None)

\* a slip that sends every sub-device the entity kept, changed or not
DeviceCommand_whole(e, cached, request) ==
    [subDevice |->
        [i \in DOMAIN KeptSorts(e) |->
            LET s == KeptSorts(e)[i]
                asked == {j \in DOMAIN request : request[j].sort = s}
            IN  SubPayload(TargetOf(e, s), s,
                           IF asked = {} THEN ""
                           ELSE request[CHOOSE j \in asked : TRUE].value)],
     rootUuid |-> e.root_uuid, nickname |-> e.nickname,
     rootDevice |-> e.rootDevice]

\* a slip that looks the target sub-device up in the cached record each
\* time a command is built
DeviceCommand_reselecting(e, cached, request) ==
    [subDevice |->
        [i \in DOMAIN request |->
            SubPayload(IF cached = NotADict
                       THEN TargetOf(e, request[i].sort)
                       ELSE Selected(cached, request[i].sort,
                                     e.platform \in {"light", "switch"}),
                       request[i].sort, request[i].value)],
     rootUuid |-> e.root_uuid, nickname |-> e.nickname,
     rootDevice |-> e.rootDevice]

\* the device_data handed to send_device_command: one subDevice element
\* per change, addressed to the sub-device the entity kept; a light, a
\* switch and a fan name the device as it was when the entity was
\* constructed, _prepare_device_command of a boiler as it is cached
DeviceCommand(e, cached, request) ==
    [subDevice |->
        [i \in DOMAIN request |->
            SubPayload(TargetOf(e, request[i].sort), request[i].sort,
                       request[i].value)],
     rootUuid |-> IF e.platform = "climate" THEN cached.rootUuid
                                            ELSE e.root_uuid,
     nickname |-> IF e.platform = "climate" THEN cached.nickname
                                            ELSE e.nickname,
     rootDevice |-> IF e.platform = "climate" THEN cached.rootDevice
                                              ELSE e.rootDevice]

\* no entity and no command
NoEntity ==
    [platform |-> "none", root_uuid |-> None, nickname |-> None,
     rootDevice |-> None, switch_subdevice |-> None,
     mode_subdevice |-> None, setpoint_subdevice |-> None,
     speed_subdevice |-> None]

NoCommand ==
    [subDevice |-> <<>>, rootUuid |-> None, nickname |-> None,
     rootDevice |-> None]

\* no service call of a boiler
NoCall == [handler |-> "none", hvac_mode |-> None, temperature |-> None]

\* no control action in progress; a running action records the entity,
\* the changes asked for, the device_data of the last send, the values
\* sent so far, what send_device_command returned for each and whether
\* the settle delay has elapsed
IdleControl ==
    [pc |-> "idle", kind |-> "none", value |-> None, payloads |-> <<>>,
     sent |-> <<>>, results |-> <<>>, success |-> FALSE,
     entity |-> NoEntity, request |-> <<>>, command |-> NoCommand,
     slept |-> FALSE,
     before |-> <<>>,      \* the cached values the patch replaced
     overtook |-> FALSE,   \* the patch was applied while the device list
                           \* request of a refresh was in flight
     call |-> NoCall,      \* the service call of a boiler, when the whole
                           \* handler is followed
     stage |-> "none",     \* ... the command it awaits: mode or setpoint
     present |-> FALSE,    \* ... the device was cached when it began
     heat |-> FALSE,       \* ... hvac_mode read HEAT when it began
     log |-> <<>>,         \* ... the commands answered so far
     scheduled |-> 0]      \* ... the _delayed_refresh tasks it created

\* coordinator.get_device_by_uuid; NotADict stands for None
get_device_by_uuid(devs, root_uuid) ==
    IF root_uuid \in DOMAIN devs THEN devs[root_uuid] ELSE NotADict

\* the positions of the sub-devices of dev with the given subUuid
SubIndexes(dev, sub_uuid) ==
    {i \in DOMAIN dev.subDevice : dev.subDevice[i].subUuid = sub_uuid}

\* the first of a non-empty set of positions
First(S) == CHOOSE i \in S : \A j \in S : i <= j

\* a slip that patches a copy of the cached record
UpdateLocalSubdeviceValue_detached(devs, root_uuid, sub_uuid, value) == devs

\* _update_local_subdevice_value: the first sub-device of the cached
\* record with that subUuid gets the value, in place
UpdateLocalSubdeviceValue(devs, root_uuid, sub_uuid, value) ==
    IF sub_uuid = None \/ root_uuid \notin DOMAIN devs
    THEN devs
    ELSE LET S == SubIndexes(devs[root_uuid], sub_uuid)
         IN  IF S = {} THEN devs
             ELSE [devs EXCEPT ![root_uuid].subDevice[First(S)].value = value]

\* the loop of CommaxFan._send_command over the payloads
RECURSIVE PatchAll(_, _, _)
PatchAll(devs, root_uuid, payloads) ==
    IF payloads = <<>> THEN devs
    ELSE PatchAll(UpdateLocalSubdeviceValue(devs, root_uuid,
                                            Head(payloads).subUuid,
                                            Head(payloads).value),
                  root_uuid, Tail(payloads))

----------------------------------------------------------------------------
(* Call frames *)

\* the names of the coroutine calls that run at the same time
Tasks == {"t1"}

\* a frame: the call (op), the await it is suspended at (pc), what the
\* pending authenticate() returns to (cont), which get_access_token call of
\* the operation is running (site), and what the call has done so far
IdleFrame ==
    [op |-> "none", pc |-> "idle", cont |-> "none", site |-> "none",
     nAuth |-> 0,             \* authorization POSTs of this call
     nAuthTok |-> 0,          \* ... of the running get_access_token call
     nearAtEntry |-> FALSE,   \* within the buffer when get_access_token began
     nReq |-> 0,              \* requests to the endpoint of this call
     got401 |-> FALSE,        \* the first request was answered 401
     bearer |-> None,         \* the token of the last request
     finalStatus |-> 0,       \* the status of the last reply, 0: none
     finalCode |-> None,      \* the parsed result code of the last reply
     ret |-> FALSE,           \* the boolean returned; refresh: no UpdateFailed
     retToken |-> None,       \* get_access_token's result
     retList |-> <<>>,        \* get_device_list's result
     carried |-> <<>>,        \* the device records of the last list reply
     retData |-> EmptyCache,  \* _async_update_data's result
     pre |-> EmptyCache,      \* _devices when the refresh began
     authSeen |-> FALSE,      \* the last step completed an authenticate()
     authOk |-> FALSE,        \* ... what it returned
     authPre |-> InitSession, \* ... the session before it
     authReply |-> CHOOSE r \in AuthReplies : r.exc,
     authTime |-> 0,
     afterFailure |-> FALSE,  \* get_access_token began after a failed
                              \* authenticate()
     entered |-> 0]           \* the clock when refresh_token_if_needed,
                              \* called on its own, began

\* the record of the authenticate() calls: the access tokens stored by the
\* calls that succeeded, the token and expiry stored by the last of them,
\* and whether the most recent call was a failed first authentication,
\* renewal near expiry or re-authentication after a 401
InitHistory ==
    [issued |-> {}, last_good |-> <<None, NoExpiry>>, failed |-> FALSE]

\* the record after an authenticate() that began at time t in session s
\* and returned a; get_access_token calls authenticate() when the flag is
\* false (never authenticated, or reset by a 401 handler) and
\* refresh_token_if_needed calls it inside the buffer
Recorded(h, a, s, t) ==
    IF a.ok
    THEN [issued |-> h.issued \cup {a.session.access_token},
          last_good |-> <<a.session.access_token, a.session.token_expires_at>>,
          failed |-> FALSE]
    ELSE [h EXCEPT !.failed =
             \/ ~s.authenticated
             \/ /\ s.token_expires_at # NoExpiry
                /\ t >= s.token_expires_at - TOKEN_EXPIRE_BUFFER]

\* what a step works on: the frame of the running call and the state it
\* reads and writes
World(f) ==
    [f |-> f, session |-> Session, devices |-> devices,
     last_update_success |-> last_update_success, history |-> history,
     control |-> control, setup |-> setup]

NoAuthHistory(f) ==
    [f EXCEPT !.authSeen = FALSE, !.authOk = FALSE,
              !.authPre = IdleFrame.authPre, !.authReply = IdleFrame.authReply,
              !.authTime = 0]

----------------------------------------------------------------------------
(* Polling coordinator *)

\* the loop of _async_update_data over the fetched list, from element i on:
\* device.get raises on an element that is not an object; a record with a
\* rootUuid is entered under it, a later one replacing an earlier one
RECURSIVE ProcessDevices(_, _, _)
ProcessDevices(l, i, device_data) ==
    IF i > Len(l)
    THEN [raised |-> FALSE, data |-> device_data]
    ELSE IF ~l[i].isDict
         THEN [raised |-> TRUE, data |-> device_data]
         ELSE IF l[i].rootUuid = None
              THEN ProcessDevices(l, i + 1, device_data)
              ELSE ProcessDevices(l, i + 1,
                      [u \in DOMAIN device_data \cup {l[i].rootUuid} |->
                          IF u = l[i].rootUuid THEN l[i] ELSE device_data[u]])

\* a slip that writes the new entries into the cache as the loop goes
UpdateData_merging(w, l) ==
    LET b == ProcessDevices(l, 1, w.devices)
        done == [w.f EXCEPT !.pc = "done", !.retList = l]
    IN  IF l = <<>>
        THEN [w EXCEPT !.f = [done EXCEPT !.ret = TRUE, !.retData = w.devices],
                       !.last_update_success = TRUE]
        ELSE IF b.raised /\ w.devices = EmptyCache
             THEN [w EXCEPT !.f = [done EXCEPT !.ret = FALSE],
                            !.devices = b.data,
                            !.last_update_success = FALSE]
             ELSE [w EXCEPT !.f = [done EXCEPT !.ret = TRUE, !.retData = b.data],
                            !.devices = b.data,
                            !.last_update_success = TRUE]

\* a slip that takes an empty list for the new state of the home
UpdateData_trusting(w, l) ==
    LET b == ProcessDevices(l, 1, EmptyCache)
        done == [w.f EXCEPT !.pc = "done", !.retList = l]
    IN  IF ~b.raised
        THEN [w EXCEPT !.f = [done EXCEPT !.ret = TRUE, !.retData = b.data],
                       !.devices = b.data,
                       !.last_update_success = TRUE]
        ELSE IF w.devices # EmptyCache
             THEN [w EXCEPT !.f = [done EXCEPT !.ret = TRUE,
                                               !.retData = w.devices],
                            !.last_update_success = TRUE]
             ELSE [w EXCEPT !.f = [done EXCEPT !.ret = FALSE],
                            !.last_update_success = FALSE]

\* a slip that reports every empty list to the host as a failed update
UpdateData_raising(w, l) ==
    LET b == ProcessDevices(l, 1, EmptyCache)
        done == [w.f EXCEPT !.pc = "done", !.retList = l]
    IN  IF l = <<>> \/ (b.raised /\ w.devices = EmptyCache)
        THEN [w EXCEPT !.f = [done EXCEPT !.ret = FALSE],
                       !.last_update_success = FALSE]
        ELSE IF ~b.raised
             THEN [w EXCEPT !.f = [done EXCEPT !.ret = TRUE,
                                               !.retData = b.data],
                            !.devices = b.data,
                            !.last_update_success = TRUE]
             ELSE [w EXCEPT !.f = [done EXCEPT !.ret = TRUE,
                                               !.retData = w.devices],
                            !.last_update_success = TRUE]

\* _async_update_data once get_device_list has returned l.  An empty list
\* returns the cache as it is; otherwise the new map is built aside and
\* stored at the end; an exception returns the cache when there is one and
\* raises UpdateFailed when there is none.  The host sets
\* last_update_success by whether the method returned or raised.
UpdateData(w, l) ==
    LET b == ProcessDevices(l, 1, EmptyCache)
        done == [w.f EXCEPT !.pc = "done", !.retList = l]
    IN  IF l = <<>>
        THEN [w EXCEPT !.f = [done EXCEPT !.ret = TRUE, !.retData = w.devices],
                       !.last_update_success = TRUE]
        ELSE IF ~b.raised
             THEN [w EXCEPT !.f = [done EXCEPT !.ret = TRUE,
                                               !.retData = b.data],
                            !.devices = b.data,
                            !.last_update_success = TRUE]
             ELSE IF w.devices # EmptyCache
                  THEN [w EXCEPT !.f = [done EXCEPT !.ret = TRUE,
                                                    !.retData = w.devices],
                                 !.last_update_success = TRUE]
                  ELSE [w EXCEPT !.f = [done EXCEPT !.ret = FALSE],
                                 !.last_update_success = FALSE]

----------------------------------------------------------------------------
(* The calls, from one await to the next *)

\* get_device_list returns l: to its caller, or into _async_update_data
ListReturn(w, l) ==
    IF w.f.op = "refresh"
    THEN UpdateData(w, l)
    ELSE [w EXCEPT !.f = [w.f EXCEPT !.pc = "done", !.retList = l]]

\* send_device_command returns b
CommandReturn(w, b) ==
    [w EXCEPT !.f = [w.f EXCEPT !.pc = "done", !.ret = b]]

\* get_access_token returns tok to the call site it was called from: without
\* a token the operation gives up, with one it issues its request (site
\* "first") or its retry (site "after401")
TokenReturn(w, tok) ==
    LET f == [w.f EXCEPT !.retToken = tok]
        send == [f EXCEPT !.pc = IF f.site = "first" THEN "request" ELSE "retry",
                          !.nReq = @ + 1, !.bearer = tok]
    IN  CASE f.op = "get_access_token" ->
                [w EXCEPT !.f = [f EXCEPT !.pc = "done", !.ret = (tok # None)]]
          [] f.op \in {"get_device_list", "refresh"} ->
                IF tok = None THEN ListReturn([w EXCEPT !.f = f], <<>>)
                ELSE [w EXCEPT !.f = send]
          [] f.op = "send_device_command" ->
                IF tok = None THEN CommandReturn([w EXCEPT !.f = f], FALSE)
                ELSE [w EXCEPT !.f = send]

\* the authorization POST goes out; cont is the function that awaits it
SendAuth(w, cont) ==
    [w EXCEPT !.f = [w.f EXCEPT !.pc = "authenticate", !.cont = cont,
                                !.nAuth = @ + 1, !.nAuthTok = @ + 1]]

\* a slip that falls back on the stored token when the renewal failed and
\* the token has not expired yet
RefreshReturn_lenient(w, b) ==
    IF w.f.op = "refresh_token_if_needed"
    THEN [w EXCEPT !.f = [w.f EXCEPT !.pc = "done", !.ret = b]]
    ELSE TokenReturn(w, IF b \/ now < w.session.token_expires_at
                        THEN w.session.access_token ELSE None)

\* refresh_token_if_needed returns b: to its caller, or into
\* get_access_token, which hands out the stored token on true and no token
\* on false
RefreshReturn(w, b) ==
    IF w.f.op = "refresh_token_if_needed"
    THEN [w EXCEPT !.f = [w.f EXCEPT !.pc = "done", !.ret = b]]
    ELSE TokenReturn(w, IF b THEN w.session.access_token ELSE None)

\* refresh_token_if_needed: no expiry known returns false, a token within
\* the buffer is renewed by authenticate(), any other token returns true
RefreshTokenIfNeeded(w) ==
    IF w.session.token_expires_at = NoExpiry
    THEN RefreshReturn(w, FALSE)
    ELSE IF NearExpiry(w.session, now)
         THEN SendAuth(w, "refresh_token_if_needed")
         ELSE RefreshReturn(w, TRUE)

\* a slip that trusts the stored token although the session is not
\* authenticated
GetAccessToken_trusting(w, site) ==
    LET w1 == [w EXCEPT !.f = [w.f EXCEPT
                  !.site = site, !.nAuthTok = 0,
                  !.afterFailure = w.history.failed,
                  !.nearAtEntry = (w.session.token_expires_at # NoExpiry
                                   /\ NearExpiry(w.session, now))]]
    IN  IF ~w1.session.authenticated /\ w1.session.access_token = None
        THEN SendAuth(w1, "get_access_token")
        ELSE RefreshTokenIfNeeded(w1)

\* get_access_token, called at the given site of the operation
GetAccessToken(w, site) ==
    LET w1 == [w EXCEPT !.f = [w.f EXCEPT
                  !.site = site, !.nAuthTok = 0,
                  !.afterFailure = w.history.failed,
                  !.nearAtEntry = (w.session.token_expires_at # NoExpiry
                                   /\ NearExpiry(w.session, now))]]
    IN  IF ~w1.session.authenticated
        THEN SendAuth(w1, "get_access_token")
        ELSE RefreshTokenIfNeeded(w1)

----------------------------------------------------------------------------
(* Actions *)

\* the step of task t ends in the world w
Becomes(t, w) ==
    /\ task' = [task EXCEPT ![t] = w.f]
    /\ access_token' = w.session.access_token
    /\ refresh_token' = w.session.refresh_token
    /\ token_expires_at' = w.session.token_expires_at
    /\ authenticated' = w.session.authenticated
    /\ devices' = w.devices
    /\ last_update_success' = w.last_update_success
    /\ history' = w.history
    /\ control' = w.control
    /\ setup' = w.setup
    /\ UNCHANGED <<now, inventory, speed>>

NewFrame(op) == [IdleFrame EXCEPT !.op = op]

\* authenticate() is called on its own (the credential test of the
\* configuration flow): the authorization POST goes out
CallAuthenticate(t) ==
    /\ task[t].pc = "idle"
    /\ Becomes(t, SendAuth(World(NewFrame("authenticate")), "caller"))

\* get_access_token() is called on its own
CallGetAccessToken(t) ==
    /\ task[t].pc = "idle"
    /\ Becomes(t, GetAccessToken(World(NewFrame("get_access_token")), "first"))

\* get_device_list() is called on its own (the configuration flow)
CallGetDeviceList(t) ==
    /\ task[t].pc = "idle"
    /\ Becomes(t, GetAccessToken(World(NewFrame("get_device_list")), "first"))

\* refresh_token_if_needed() is called on its own
CallRefreshTokenIfNeeded(t) ==
    /\ task[t].pc = "idle"
    /\ Becomes(t, RefreshTokenIfNeeded(World(
                     [NewFrame("refresh_token_if_needed") EXCEPT
                        !.entered = now,
                        !.nearAtEntry = (token_expires_at # NoExpiry
                                         /\ NearExpiry(Session, now))])))

\* send_device_command() is called by an entity
CallSendDeviceCommand(t) ==
    /\ task[t].pc = "idle"
    /\ Becomes(t, GetAccessToken(World(NewFrame("send_device_command")), "first"))

\* the host runs a refresh: _async_update_data calls get_device_list
CallRefresh(t) ==
    /\ task[t].pc = "idle"
    /\ Becomes(t, GetAccessToken(
                     World([NewFrame("refresh") EXCEPT !.pre = devices]),
                     "first"))

\* the world in which send_device_command has just been called
SendDeviceCommand(w) ==
    GetAccessToken([w EXCEPT !.f = NewFrame("send_device_command")], "first")

\* the validation of CommaxLight._send_command: rootUuid, a subDevice
\* element and its subUuid are present
ValidCommand(device_data) ==
    /\ device_data.rootUuid # None
    /\ device_data.subDevice # <<>>
    /\ device_data.subDevice[1].subUuid # None

\* the mode a boiler entity reports: HEAT when the cached value of its
\* mode sub-device is "heat", OFF otherwise
HvacHeat(e, cached) ==
    /\ e.mode_subdevice # None
    /\ cached # NotADict
    /\ LET S == SubIndexes(cached, e.mode_subdevice)
       IN  S # {} /\ cached.subDevice[First(S)].value = "heat"

\* a slip that requests the refresh only after a successful command
FollowUp_onSuccess(kind, success) ==
    [sleep |-> kind \in {"climate", "fan"} \/ (kind = "light" /\ success),
     refresh |-> success]

\* what an entity does once its sends are over: the boiler and the fan
\* start _delayed_refresh, which sleeps one second and requests the
\* refresh; the light sleeps one second before the request after a success
\* and requests it at once after a failure; the switch requests it at once
FollowUp(kind, success) ==
    [sleep |-> kind \in {"climate", "fan"} \/ (kind = "light" /\ success),
     refresh |-> TRUE]

\* CommaxLight._send_command and CommaxSwitch._send_command: the requested
\* value is sent
SendCommand(t) ==
    /\ task[t].pc = "idle"
    /\ control.pc = "idle"
    /\ \E e \in setup.entities, request \in ServiceCalls("light") :
         LET cached == get_device_by_uuid(devices, e.root_uuid)
             device_data == DeviceCommand(e, cached, request)
         IN  /\ e.platform \in {"light", "switch"}
             /\ e.switch_subdevice # None
             /\ e.platform = "light" => ValidCommand(device_data)
             /\ Becomes(t, SendDeviceCommand(
                          [World(task[t]) EXCEPT !.control =
                              [IdleControl EXCEPT
                                 !.pc = "sending",
                                 !.kind = e.platform,
                                 !.entity = e,
                                 !.request = request,
                                 !.command = device_data,
                                 !.value = request[1].value,
                                 !.sent = <<request[1].value>>]]))

\* a slip that skips an encoding that was already sent
NextEncoding_skipping(c) ==
    LET alts == alternative_values(c.value)
        k == Len(c.sent) - 1
    IN  IF k + 1 < Len(alts) /\ alts[k + 1] = c.value
        THEN <<alts[k + 2]>>
        ELSE IF k < Len(alts) THEN <<alts[k + 1]>> ELSE <<>>

\* a slip that starts the list again when it is exhausted
NextEncoding_cycling(c) ==
    LET alts == alternative_values(c.value)
        k == Len(c.sent) - 1
    IN  IF alts = <<>> THEN <<>> ELSE <<alts[(k % Len(alts)) + 1]>>

\* what the fallback loop sends next: the element of alternative_values
\* after those already tried, or nothing when the list is exhausted
NextEncoding(c) ==
    LET alts == alternative_values(c.value)
        k == Len(c.sent) - 1
    IN  IF k < Len(alts) THEN <<alts[k + 1]>> ELSE <<>>

\* send_device_command returns into _send_command of a light or switch:
\* on failure the next encoding is sent, until one succeeds or the list is
\* exhausted; then the action awaits the refresh it requests
SendCommandResumes(t) ==
    /\ control.pc = "sending" /\ control.kind \in {"light", "switch"}
    /\ task[t].op = "send_device_command" /\ task[t].pc = "done"
    /\ LET c == [control EXCEPT !.results = Append(@, task[t].ret)]
           nxt == NextEncoding(c)
       IN  IF ~task[t].ret /\ nxt # <<>>
           THEN Becomes(t, SendDeviceCommand(
                             [World(task[t]) EXCEPT !.control =
                                 [c EXCEPT
                                    !.sent = Append(@, nxt[1]),
                                    !.command.subDevice[1].value = nxt[1]]]))
           ELSE Becomes(t, [World(IdleFrame) EXCEPT !.control =
                              [c EXCEPT !.pc = "done",
                                        !.success = task[t].ret]])

\* the (subUuid, value) pairs of a command's subDevice array
PayloadsOf(device_data) ==
    [i \in DOMAIN device_data.subDevice |->
        Payload(device_data.subDevice[i].subUuid,
                device_data.subDevice[i].value)]

\* async_set_hvac_mode and async_set_temperature of a boiler (the command
\* is built by _prepare_device_command, only for a device in the cache and
\* a sub-device the entity kept; a temperature is not sent while the
\* boiler is off) and async_turn_on, async_turn_off of a fan: the command
\* is sent
PatchingCommand(t) ==
    /\ task[t].pc = "idle"
    /\ control.pc = "idle"
    /\ \E e \in setup.entities :
         \E request \in ServiceCalls(e.platform) :
           LET cached == get_device_by_uuid(devices, e.root_uuid)
               device_data == DeviceCommand(e, cached, request)
           IN  /\ e.platform \in {"climate", "fan"}
               /\ e.platform = "climate" =>
                     /\ TargetOf(e, request[1].sort) # None
                     /\ cached # NotADict
                     /\ request[1].sort = SUBDEVICE_THERMOSTAT_SETPOINT
                           => HvacHeat(e, cached)
               /\ e.platform = "fan" =>
                     /\ e.switch_subdevice # None
                     /\ Len(request) = 2 => e.mode_subdevice # None
               /\ Becomes(t, SendDeviceCommand(
                            [World(task[t]) EXCEPT !.control =
                                [IdleControl EXCEPT
                                   !.pc = "sending",
                                   !.kind = e.platform,
                                   !.entity = e,
                                   !.request = request,
                                   !.command = device_data,
                                   !.payloads = PayloadsOf(device_data)]]))

\* the value the cache holds for a sub-device of the entity's device, None
\* when the cache has no such sub-device
CachedValue(devs, root_uuid, sub_uuid) ==
    LET dev == get_device_by_uuid(devs, root_uuid)
        S == SubIndexes(dev, sub_uuid)
    IN  IF S = {} THEN None ELSE dev.subDevice[First(S)].value

\* the first device list request of a refresh run by another task is
\* awaiting its reply
ListRequestInFlight(t) ==
    \E u \in DOMAIN task \ {t} :
        /\ task[u].op = "refresh"
        /\ task[u].pc = "request"
        /\ task[u].nReq = 1

\* a slip that patches the cache whatever send_device_command returned
PatchingCommandResumes_always(t) ==
    /\ control.pc = "sending" /\ control.kind \in {"climate", "fan"}
    /\ task[t].op = "send_device_command" /\ task[t].pc = "done"
    /\ Becomes(t, [World(IdleFrame) EXCEPT
                     !.control = [control EXCEPT
                                    !.pc = "done",
                                    !.results = <<task[t].ret>>,
                                    !.success = task[t].ret],
                     !.devices = PatchAll(devices, control.entity.root_uuid,
                                          control.payloads)])

\* send_device_command returns into the boiler or fan entity: on success
\* the cached record is patched with every payload's value; the refresh is
\* scheduled in both cases
PatchingCommandResumes(t) ==
    /\ control.pc = "sending" /\ control.kind \in {"climate", "fan"}
    /\ task[t].op = "send_device_command" /\ task[t].pc = "done"
    /\ Becomes(t, [World(IdleFrame) EXCEPT
                     !.control = [control EXCEPT
                        !.pc = "done",
                        !.results = <<task[t].ret>>,
                        !.success = task[t].ret,
                        !.before =
                           IF task[t].ret
                           THEN [i \in DOMAIN control.payloads |->
                                   CachedValue(devices,
                                               control.entity.root_uuid,
                                               control.payloads[i].subUuid)]
                           ELSE <<>>,
                        !.overtook = task[t].ret /\ ListRequestInFlight(t)],
                     !.devices = IF task[t].ret
                                 THEN PatchAll(devices,
                                               control.entity.root_uuid,
                                               control.payloads)
                                 ELSE devices])

\* asyncio.sleep(1) of CommaxLight._send_command after a success and of
\* _delayed_refresh of the boiler and the fan
SettleDelay(t) ==
    /\ control.pc = "done"
    /\ task[t].pc = "idle"
    /\ FollowUp(control.kind, control.success).sleep
    /\ ~control.slept
    /\ Becomes(t, [World(task[t]) EXCEPT !.control.slept = TRUE])

\* coordinator.async_request_refresh(), awaited by the light and switch
\* and run by _delayed_refresh for the boiler and fan: the refresh begins
RequestedRefresh(t) ==
    /\ control.pc = "done"
    /\ task[t].pc = "idle"
    /\ LET then == FollowUp(control.kind, control.success)
       IN  /\ then.sleep => control.slept
           /\ IF then.refresh
              THEN Becomes(t, GetAccessToken(
                     [World([NewFrame("refresh") EXCEPT !.pre = devices])
                        EXCEPT !.control = [control EXCEPT !.pc = "refresh",
                                                           !.sent = <<>>,
                                                           !.results = <<>>]],
                     "first"))
              ELSE Becomes(t, [World(task[t]) EXCEPT !.control = IdleControl])

\* the requested refresh has ended and with it the control action
ControlReturn(t) ==
    /\ control.pc = "refresh"
    /\ task[t].op = "refresh" /\ task[t].pc = "done"
    /\ Becomes(t, [World(IdleFrame) EXCEPT !.control = IdleControl])

\* the hvac_mode arguments of the calls: absent, the two modes the boiler
\* supports, a mode of the host it does not support, and a string that is
\* no mode
HvacInputs == {None, "off", "heat", "cool", "bogus"}

\* _normalize_hvac_mode: the mode a string names, None when it names none
normalize_hvac_mode(hvac_mode) ==
    IF hvac_mode \in {"off", "heat", "cool"} THEN hvac_mode ELSE None

\* a slip that builds the command without looking for the device
prepare_device_command_uncached(e, cached, sort, value) ==
    IF TargetOf(e, sort) = None THEN NoCommand
    ELSE DeviceCommand(e, cached, <<Change(sort, value)>>)

\* CommaxThermostat._prepare_device_command: None (NoCommand) without the
\* sub-device or when the device is not in the cache
prepare_device_command(e, cached, sort, value) ==
    IF TargetOf(e, sort) = None THEN NoCommand
    ELSE IF cached = NotADict THEN NoCommand
    ELSE DeviceCommand(e, cached, <<Change(sort, value)>>)

\* async_set_hvac_mode down to the call of send_device_command in
\* _send_mode_command: the device_data it sends, NoCommand when it
\* returns without sending
ModeCommand(e, cached, hvac_mode) ==
    LET normalized_mode == normalize_hvac_mode(hvac_mode)
    IN  IF normalized_mode = None THEN NoCommand
        ELSE IF e.mode_subdevice = None THEN NoCommand
        ELSE IF normalized_mode \notin {"heat", "off"} THEN NoCommand
        ELSE prepare_device_command(
                 e, cached, SUBDEVICE_THERMOSTAT_MODE,
                 IF normalized_mode = "heat" THEN "heat" ELSE DEVICE_OFF)

\* a slip that sends the temperature whatever the mode is
SetpointCommand_anyMode(e, cached, call) ==
    IF call.temperature = None \/ e.setpoint_subdevice = None
    THEN NoCommand
    ELSE prepare_device_command(e, cached,
                                SUBDEVICE_THERMOSTAT_SETPOINT,
                                call.temperature)

\* async_set_temperature after its mode part, down to the call of
\* send_device_command in _send_temperature_command: nothing is sent when
\* the request's mode is OFF, without a temperature or a setpoint
\* sub-device, or when the effective mode (the request's, else the one
\* hvac_mode reads from the cache) is OFF
SetpointCommand(e, cached, call) ==
    LET normalized_mode == normalize_hvac_mode(call.hvac_mode)
        effective_mode == IF normalized_mode # None THEN normalized_mode
                          ELSE IF HvacHeat(e, cached) THEN "heat" ELSE "off"
    IN  IF normalized_mode = "off" THEN NoCommand
        ELSE IF call.temperature = None \/ e.setpoint_subdevice = None
        THEN NoCommand
        ELSE IF effective_mode = "off" THEN NoCommand
        ELSE prepare_device_command(e, cached,
                                    SUBDEVICE_THERMOSTAT_SETPOINT,
                                    call.temperature)

\* the control record of a boiler handler that awaits the command
\* device_data at the given stage
Awaiting(c, stage, device_data) ==
    [c EXCEPT !.pc = "sending",
              !.stage = stage,
              !.command = device_data,
              !.request = <<Change(device_data.subDevice[1].sort,
                                   device_data.subDevice[1].value)>>,
              !.payloads = PayloadsOf(device_data)]

\* a boiler handler begins: it sends the first command it has, or returns
\* having sent nothing
HandlerBegins(t, e, call, first, second) ==
    LET cached == get_device_by_uuid(devices, e.root_uuid)
        c == [IdleControl EXCEPT !.kind = e.platform,
                                 !.entity = e,
                                 !.call = call,
                                 !.present = cached # NotADict,
                                 !.heat = HvacHeat(e, cached)]
    IN  IF first # NoCommand
        THEN Becomes(t, SendDeviceCommand(
                 [World(task[t]) EXCEPT !.control =
                     Awaiting(c, "mode", first)]))
        ELSE IF second # NoCommand
        THEN Becomes(t, SendDeviceCommand(
                 [World(task[t]) EXCEPT !.control =
                     Awaiting(c, "setpoint", second)]))
        ELSE Becomes(t, [World(task[t]) EXCEPT !.control =
                            [c EXCEPT !.pc = "returned"]])

\* CommaxThermostat.async_set_temperature is called: with an hvac_mode
\* that names a mode it awaits async_set_hvac_mode first
SetTemperature(t) ==
    /\ task[t].pc = "idle"
    /\ control.pc = "idle"
    /\ \E e \in setup.entities, hvac_mode \in HvacInputs,
          temperature \in {None, "23"} :
         LET cached == get_device_by_uuid(devices, e.root_uuid)
             call == [handler |-> "set_temperature",
                      hvac_mode |-> hvac_mode,
                      temperature |-> temperature]
         IN  /\ e.platform = "climate"
             /\ HandlerBegins(t, e, call,
                              ModeCommand(e, cached, hvac_mode),
                              SetpointCommand(e, cached, call))

\* CommaxThermostat.async_set_hvac_mode is called by the host
SetHvacMode(t) ==
    /\ task[t].pc = "idle"
    /\ control.pc = "idle"
    /\ \E e \in setup.entities, hvac_mode \in HvacInputs \ {None} :
         LET cached == get_device_by_uuid(devices, e.root_uuid)
             call == [handler |-> "set_hvac_mode",
                      hvac_mode |-> hvac_mode,
                      temperature |-> None]
         IN  /\ e.platform = "climate"
             /\ HandlerBegins(t, e, call,
                              ModeCommand(e, cached, hvac_mode), NoCommand)

\* the control record and the cache once the command of a boiler handler
\* has been answered: on success the cache is patched; _delayed_refresh
\* is started in both cases
Answered(c, devs, ret) ==
    [control |->
        [c EXCEPT !.results = <<ret>>,
                  !.success = ret,
                  !.log = Append(@, [sort |-> c.command.subDevice[1].sort,
                                     value |-> c.command.subDevice[1].value,
                                     result |-> ret]),
                  !.scheduled = @ + 1],
     devices |-> IF ret THEN PatchAll(devs, c.entity.root_uuid, c.payloads)
                        ELSE devs]

\* a slip that gives the temperature up when the mode command failed
ClimateResumes_stopOnFailure(t) ==
    /\ control.pc = "sending" /\ control.call # NoCall
    /\ task[t].op = "send_device_command" /\ task[t].pc = "done"
    /\ LET a == Answered(control, devices, task[t].ret)
           e == control.entity
           next == IF control.stage = "mode"
                      /\ control.call.handler = "set_temperature"
                      /\ task[t].ret
                   THEN SetpointCommand(
                           e, get_device_by_uuid(a.devices, e.root_uuid),
                           control.call)
                   ELSE NoCommand
       IN  IF next # NoCommand
           THEN Becomes(t, SendDeviceCommand(
                    [World(task[t]) EXCEPT
                        !.devices = a.devices,
                        !.control = Awaiting(a.control, "setpoint", next)]))
           ELSE Becomes(t, [World(IdleFrame) EXCEPT
                               !.devices = a.devices,
                               !.control = [a.control EXCEPT !.pc = "done"]])

\* send_device_command returns into _send_mode_command or
\* _send_temperature_command; async_set_temperature goes on from its mode
\* part to the temperature, whatever the mode command returned
ClimateResumes(t) ==
    /\ control.pc = "sending" /\ control.call # NoCall
    /\ task[t].op = "send_device_command" /\ task[t].pc = "done"
    /\ LET a == Answered(control, devices, task[t].ret)
           e == control.entity
           next == IF control.stage = "mode"
                      /\ control.call.handler = "set_temperature"
                   THEN SetpointCommand(
                           e, get_device_by_uuid(a.devices, e.root_uuid),
                           control.call)
                   ELSE NoCommand
       IN  IF next # NoCommand
           THEN Becomes(t, SendDeviceCommand(
                    [World(task[t]) EXCEPT
                        !.devices = a.devices,
                        !.control = Awaiting(a.control, "setpoint", next)]))
           ELSE Becomes(t, [World(IdleFrame) EXCEPT
                               !.devices = a.devices,
                               !.control = [a.control EXCEPT !.pc = "done"]])

\* a boiler handler that sent nothing has returned
HandlerReturns(t) ==
    /\ control.pc = "returned"
    /\ task[t].pc = "idle"
    /\ Becomes(t, [World(task[t]) EXCEPT !.control = IdleControl])

\* the world in which _async_update_data has just been called
StartRefresh(w) ==
    GetAccessToken([w EXCEPT !.f = [NewFrame("refresh") EXCEPT
                                      !.pre = w.devices]], "first")

\* a slip that forwards the entry to the platforms without awaiting the
\* first refresh
SetupEntry_eager(t) ==
    /\ setup.pc = "none"
    /\ task[t].pc = "idle"
    /\ Becomes(t, [World(task[t]) EXCEPT !.setup.pc = "platforms"])

\* async_setup_entry: the auth manager and the coordinator are created
\* and the first refresh is awaited
SetupEntry(t) ==
    /\ setup.pc = "none"
    /\ task[t].pc = "idle"
    /\ Becomes(t, StartRefresh([World(task[t]) EXCEPT
                                  !.setup.pc = "first_refresh"]))

\* async_config_entry_first_refresh returns: a failed first refresh makes
\* the host abandon the setup (ConfigEntryNotReady), otherwise the entry is
\* forwarded to the platforms
FirstRefreshDone(t) ==
    /\ setup.pc = "first_refresh"
    /\ task[t].op = "refresh" /\ task[t].pc = "done"
    /\ Becomes(t, [World(IdleFrame) EXCEPT
                     !.setup = [setup EXCEPT
                        !.pc = IF task[t].ret THEN "platforms"
                                              ELSE "not_ready",
                        !.refreshes = @ + 1,
                        !.first = devices]])

\* the setup after the next platform added its entities for data
PlatformAdded(s, data) ==
    LET platform == PLATFORMS[Len(s.platforms) + 1]
    IN  [s EXCEPT !.platforms = Append(@, platform),
                  !.entities = @ \cup PlatformEntities(platform, data),
                  !.pc = IF Len(s.platforms) + 1 = Len(PLATFORMS)
                         THEN "done" ELSE "platforms"]

\* async_setup_entry of the next platform: climate and fan refresh first,
\* light and switch only when coordinator.data is empty; then the entities
\* are built from coordinator.data
PlatformSetup(t) ==
    /\ setup.pc = "platforms"
    /\ Len(setup.platforms) < Len(PLATFORMS)
    /\ task[t].pc = "idle"
    /\ LET platform == PLATFORMS[Len(setup.platforms) + 1]
       IN  IF platform \in {"climate", "fan"} \/ devices = EmptyCache
           THEN Becomes(t, StartRefresh([World(task[t]) EXCEPT
                                          !.setup.pc = "platform_refresh"]))
           ELSE Becomes(t, [World(task[t]) EXCEPT
                              !.setup = PlatformAdded(setup, devices)])

\* the platform's own refresh has ended and the entities are built
PlatformRefreshed(t) ==
    /\ setup.pc = "platform_refresh"
    /\ task[t].op = "refresh" /\ task[t].pc = "done"
    /\ Becomes(t, [World(IdleFrame) EXCEPT
                     !.setup = PlatformAdded(
                                  [setup EXCEPT !.refreshes = @ + 1],
                                  devices)])

\* the reply to the authorization POST arrives: authenticate() finishes and
\* the function that awaited it goes on
AuthReply(t) ==
    /\ task[t].pc = "authenticate"
    /\ \E r \in AuthReplies :
         LET a == Authenticate(Session, r, now)
             f == [task[t] EXCEPT !.authSeen = TRUE, !.authOk = a.ok,
                                  !.authPre = Session, !.authReply = r,
                                  !.authTime = now]
             w == [World(f) EXCEPT !.session = a.session,
                                   !.history = Recorded(history, a, Session, now)]
         IN  CASE f.cont = "caller" ->
                    Becomes(t, [w EXCEPT !.f = [f EXCEPT !.pc = "done",
                                                         !.ret = a.ok]])
               [] f.cont = "get_access_token" ->
                    Becomes(t, IF a.ok THEN RefreshTokenIfNeeded(w)
                                       ELSE TokenReturn(w, None))
               [] f.cont = "refresh_token_if_needed" ->
                    Becomes(t, RefreshReturn(w, a.ok))

\* a slip that takes the devices of a reply without looking at its result code
ParseDeviceList_unchecked(r) == r.devices

\* what get_device_list makes of a reply with status 200: the records
\* under resource.devices.object, an empty list when the body has none there
ParseDeviceList(r) ==
    IF r.resultCode # API_SUCCESS_CODE THEN <<>>
    ELSE IF r.shape = "nested" THEN r.devices ELSE <<>>

\* the frame after a reply of the endpoint arrived
Replied(f, status, code) ==
    [NoAuthHistory(f) EXCEPT !.finalStatus = status, !.finalCode = code]

\* the reply to the device-list GET arrives
DeviceListReply(t) ==
    /\ task[t].pc = "request"
    /\ task[t].op \in {"get_device_list", "refresh"}
    /\ \E r \in ListReplies :
         LET w == World([Replied(task[t], r.status, r.resultCode)
                           EXCEPT !.carried = r.devices])
         IN  IF r.exc
             THEN Becomes(t, ListReturn(w, <<>>))
             ELSE IF r.status = HTTP_UNAUTHORIZED
                  THEN Becomes(t, GetAccessToken(
                          [w EXCEPT !.session.authenticated = FALSE,
                                    !.f.got401 = TRUE],
                          "after401"))
                  ELSE IF r.status # HTTP_OK
                       THEN Becomes(t, ListReturn(w, <<>>))
                       ELSE Becomes(t, ListReturn(w, ParseDeviceList(r)))

\* the reply to the retried device-list GET arrives
DeviceListRetryReply(t) ==
    /\ task[t].pc = "retry"
    /\ task[t].op \in {"get_device_list", "refresh"}
    /\ \E r \in ListReplies :
         LET w == World([Replied(task[t], r.status, r.resultCode)
                           EXCEPT !.carried = r.devices])
         IN  IF r.exc \/ r.status # HTTP_OK
             THEN Becomes(t, ListReturn(w, <<>>))
             ELSE Becomes(t, ListReturn(w, ParseDeviceList(r)))

\* a slip that takes every reply with status 200 for a success
CommandResult_anyBody(r) == TRUE

\* what send_device_command makes of a reply with status 200
CommandResult(r) ==
    r.hasBody /\ r.resultCode = API_SUCCESS_CODE

CommandCode(r) == IF r.hasBody THEN r.resultCode ELSE None

\* the reply to the command POST arrives
CommandReply(t) ==
    /\ task[t].pc = "request"
    /\ task[t].op = "send_device_command"
    /\ \E r \in CommandReplies :
         LET w == World(Replied(task[t], r.status, CommandCode(r)))
         IN  IF r.exc
             THEN Becomes(t, CommandReturn(w, FALSE))
             ELSE IF r.status = HTTP_UNAUTHORIZED
                  THEN Becomes(t, GetAccessToken(
                          [w EXCEPT !.session.authenticated = FALSE,
                                    !.f.got401 = TRUE],
                          "after401"))
                  ELSE IF r.status # HTTP_OK
                       THEN Becomes(t, CommandReturn(w, FALSE))
                       ELSE Becomes(t, CommandReturn(w, CommandResult(r)))

\* a slip that answers a 401 on the retry like the 401 on the first request
CommandRetryReply_again(t) ==
    /\ task[t].pc = "retry"
    /\ task[t].op = "send_device_command"
    /\ \E r \in CommandReplies :
         LET w == World(Replied(task[t], r.status, CommandCode(r)))
         IN  IF r.exc
             THEN Becomes(t, CommandReturn(w, FALSE))
             ELSE IF r.status = HTTP_UNAUTHORIZED
                  THEN Becomes(t, GetAccessToken(
                          [w EXCEPT !.session.authenticated = FALSE],
                          "after401"))
                  ELSE IF r.status # HTTP_OK
                       THEN Becomes(t, CommandReturn(w, FALSE))
                       ELSE Becomes(t, CommandReturn(w, CommandResult(r)))

\* the reply to the retried command POST arrives
CommandRetryReply(t) ==
    /\ task[t].pc = "retry"
    /\ task[t].op = "send_device_command"
    /\ \E r \in CommandReplies :
         LET w == World(Replied(task[t], r.status, CommandCode(r)))
         IN  IF r.exc \/ r.status # HTTP_OK
             THEN Becomes(t, CommandReturn(w, FALSE))
             ELSE Becomes(t, CommandReturn(w, CommandResult(r)))

\* the caller takes the result and the task is free for the next call; a
\* call made by a control action returns into that action
Return(t) ==
    /\ task[t].pc = "done"
    /\ control.pc = "idle"
    /\ task' = [task EXCEPT ![t] = IdleFrame]
    /\ UNCHANGED <<authVars, now, devices, last_update_success, history,
                   control, inventory, setup, speed>>

\* time passes
Tick ==
    /\ now + TickSeconds <= StartTime + MaxTicks * TickSeconds
    /\ now' = now + TickSeconds
    /\ UNCHANGED <<authVars, devices, last_update_success, task, history,
                   control, inventory, setup, speed>>

Init ==
    /\ access_token = InitSession.access_token
    /\ refresh_token = InitSession.refresh_token
    /\ token_expires_at = InitSession.token_expires_at
    /\ authenticated = InitSession.authenticated
    /\ now = StartTime
    /\ devices = EmptyCache
    /\ last_update_success = TRUE
    /\ task = [t \in Tasks |-> IdleFrame]
    /\ history = InitHistory
    /\ control = IdleControl
    /\ inventory = DevicePool
    /\ setup = NotSetUp
    /\ speed = NoSpeedCall

Next ==
    \/ \E t \in DOMAIN task : CallAuthenticate(t)
    \/ \E t \in DOMAIN task : CallGetAccessToken(t)
    \/ \E t \in DOMAIN task : CallRefreshTokenIfNeeded(t)
    \/ \E t \in DOMAIN task : CallGetDeviceList(t)
    \/ \E t \in DOMAIN task : CallSendDeviceCommand(t)
    \/ \E t \in DOMAIN task : CallRefresh(t)
    \/ \E t \in DOMAIN task : AuthReply(t)
    \/ \E t \in DOMAIN task : DeviceListReply(t)
    \/ \E t \in DOMAIN task : DeviceListRetryReply(t)
    \/ \E t \in DOMAIN task : CommandReply(t)
    \/ \E t \in DOMAIN task : CommandRetryReply(t)
    \/ \E t \in DOMAIN task : Return(t)
    \/ Tick

Spec == Init /\ [][Next]_vars

----------------------------------------------------------------------------
(* Properties *)

Frames == {task[t] : t \in DOMAIN task}

Returned(f, op) == f.op = op /\ f.pc = "done"

\* get_device_list did not obtain the list: no token, a transport error, a
\* status other than 200 or a result code other than the success code
ListFailed(f) ==
    f.finalStatus # HTTP_OK \/ f.finalCode # API_SUCCESS_CODE

\* C1: send_device_command returns true exactly when the last reply it
\* received (the first one, or the retry's after a 401) has status 200 and
\* the result code "E0000"; in every other case it returns false.
C1_TrueIffFinalReplyOk ==
    \A f \in Frames :
        Returned(f, "send_device_command") =>
            (f.ret <=> (f.finalStatus = HTTP_OK
                        /\ f.finalCode = API_SUCCESS_CODE))

\* a command that succeeded on its retry after a 401
C1_Witness ==
    \E f \in Frames :
        /\ Returned(f, "send_device_command")
        /\ f.got401 /\ f.nReq = 2 /\ f.ret

\* C2: a call of get_device_list or send_device_command issues at most two
\* requests to its endpoint, and when the retry is answered by anything but
\* status 200 the call returns its failure value.
C2_AtMostOneRetry ==
    \A f \in Frames :
        /\ f.nReq <= 2
        /\ (f.pc = "done" /\ f.nReq = 2 /\ f.finalStatus # HTTP_OK) =>
              CASE f.op = "send_device_command" -> ~f.ret
                [] f.op \in {"get_device_list", "refresh"} -> f.retList = <<>>

\* a call whose retry was answered 401 as well
C2_Witness ==
    \E f \in Frames :
        /\ f.pc = "done" /\ f.op \in {"get_device_list", "send_device_command"}
        /\ f.got401 /\ f.nReq = 2 /\ f.finalStatus = HTTP_UNAUTHORIZED

\* C3: a get_access_token call that began with the stored token within the
\* buffer of its expiry has made exactly one authorization request when it
\* returns.
C3_ExactlyOneReauthentication ==
    \A f \in Frames :
        (Returned(f, "get_access_token") /\ f.nearAtEntry) => f.nAuthTok = 1

\* C4: when the retry after a 401 goes out, exactly one authorization request
\* was made since the 401.
C4_OneReauthenticationAfter401 ==
    \A f \in Frames :
        (f.pc = "retry" /\ f.got401) => f.nAuthTok = 1

\* C5: after an authenticate() that returned false the session is not
\* authenticated.
C5_FailedAuthenticateClearsFlag ==
    \A f \in Frames :
        (f.authSeen /\ ~f.authOk) => ~authenticated

\* C6: after an authenticate() the session is either the one its reply
\* describes or the one from before the call.
C6_SessionReplacedWholesale ==
    \A f \in Frames :
        f.authSeen =>
            \/ Session = SessionOf(f.authReply, f.authTime)
            \/ Session = f.authPre

\* C7: a refresh that began with an empty cache and did not obtain the
\* device list ends as an update failure.
C7_FirstRunFailureIsError ==
    \A f \in Frames :
        (Returned(f, "refresh") /\ f.pre = EmptyCache /\ ListFailed(f)) =>
            (~f.ret /\ ~last_update_success)

\* CommaxLight.available, of an entity that has its switch sub-device
available == last_update_success

\* C8: a refresh that gets an empty list while the cache is not empty leaves
\* the cache as it was and ends as a successful update that returns the
\* cache, so that the entities stay available.
C8_EmptyListKeepsCache ==
    \A f \in Frames :
        (Returned(f, "refresh") /\ f.retList = <<>> /\ f.pre # EmptyCache) =>
            /\ devices = f.pre
            /\ f.ret /\ f.retData = f.pre
            /\ available

\* the vendor answered with a success reply that lists no device
C8_Witness ==
    \E f \in Frames :
        /\ Returned(f, "refresh") /\ f.retList = <<>> /\ f.pre # EmptyCache
        /\ ~ListFailed(f)

\* C9 as stated: a failed refresh of a populated cache keeps the cache and
\* is reported to the host as an update that did not succeed.
C9_FailureReportedUpward ==
    \A f \in Frames :
        (Returned(f, "refresh") /\ f.pre # EmptyCache /\ ListFailed(f)) =>
            (devices = f.pre /\ ~last_update_success)

\* C9 as amended: a failed refresh of a populated cache keeps the cache and
\* ends as a successful update that returns the previous cache; the host
\* sees no failure.
C9_FailureKeepsCacheAsSuccess ==
    \A f \in Frames :
        (Returned(f, "refresh") /\ f.pre # EmptyCache /\ ListFailed(f)) =>
            /\ devices = f.pre
            /\ f.ret /\ f.retData = f.pre
            /\ last_update_success

\* a refresh of a populated cache whose retry after a 401 failed
C9_Witness ==
    \E f \in Frames :
        /\ Returned(f, "refresh") /\ f.pre # EmptyCache
        /\ f.got401 /\ f.nReq = 2 /\ f.finalStatus = 500

\* the map from rootUuid to the last record of the list that carries it
MapOf(l) ==
    LET carrying(u) == {i \in 1..Len(l) : l[i].rootUuid = u}
        last(u) == CHOOSE i \in carrying(u) : \A j \in carrying(u) : j <= i
    IN  [u \in {l[i].rootUuid : i \in 1..Len(l)} \ {None} |-> l[last(u)]]

\* C10: after a refresh the cache is the map built from the fetched list or
\* the cache from before the refresh, never a mixture.
C10_ReplacedWholesaleOrKept ==
    \A f \in Frames :
        Returned(f, "refresh") =>
            \/ devices = f.pre
            \/ /\ \A i \in 1..Len(f.retList) : f.retList[i].isDict
               /\ devices = MapOf(f.retList)

\* the loop raised on the second element after it had entered the first
C10_Witness ==
    \E f \in Frames :
        /\ Returned(f, "refresh") /\ Len(f.retList) = 2
        /\ f.retList[1].isDict /\ f.retList[1].rootUuid # None
        /\ ~f.retList[2].isDict
        /\ f.pre # EmptyCache /\ f.retList[1].rootUuid \notin DOMAIN f.pre
        /\ devices = f.pre

----------------------------------------------------------------------------
(* Properties of the registry client and the auth session *)

\* C11: get_device_list returns the empty list whenever it got no token, a
\* transport error, a status other than 200 or a result code other than the
\* success code, and a refresh that ends this way leaves the cache as it was.
C11_FailureYieldsEmptyList ==
    \A f \in Frames :
        /\ (Returned(f, "get_device_list") /\ ListFailed(f)) =>
              f.retList = <<>>
        /\ (Returned(f, "refresh") /\ ListFailed(f)) =>
              (f.retList = <<>> /\ devices = f.pre)

\* a refresh of a populated cache that was answered with status 200 and a
\* result code other than the success code
C11_Witness ==
    \E f \in Frames :
        /\ Returned(f, "refresh") /\ f.pre # EmptyCache
        /\ f.finalStatus = HTTP_OK /\ f.finalCode = "E9999"
        /\ f.retList = <<>> /\ devices = f.pre

\* the reply carries a lifetime authenticate() can add to the clock
WellFormedTtl(r) == r.expireInKind \in {"absent", "number"}

----------------------------------------------------------------------------
(* refresh_token_if_needed and get_access_token *)

\* C19: refresh_token_if_needed returns false without a network call when
\* no expiry is known, returns true without a network call when
\* now < expiry - 1800, and otherwise calls authenticate() once and returns
\* what it returned.
C19_RefreshTokenIfNeeded ==
    \A f \in Frames :
        Returned(f, "refresh_token_if_needed") =>
            /\ f.nAuth <= 1
            /\ f.nAuth = 0 =>
                   \/ token_expires_at = NoExpiry /\ ~f.ret
                   \/ /\ token_expires_at # NoExpiry
                      /\ f.entered < token_expires_at - 1800
                      /\ f.ret
            /\ f.nAuth = 1 =>
                   /\ f.authSeen
                   /\ f.authPre.token_expires_at # NoExpiry
                   /\ f.authTime >= f.authPre.token_expires_at - 1800
                   /\ f.ret = f.authOk

\* the renewal happens at the very instant the buffer begins
C19_Witness ==
    \E f \in Frames :
        /\ Returned(f, "refresh_token_if_needed")
        /\ f.nAuth = 1
        /\ f.authTime = f.authPre.token_expires_at - 1800
        /\ f.ret

\* the frames in which a get_access_token call has run
TokenCalls ==
    {f \in Frames : f.op \in {"get_access_token", "get_device_list",
                              "send_device_command", "refresh"}
                    /\ f.site # "none"}

\* C17: get_access_token authenticates first when the session is not
\* authenticated, and returns None when the authenticate attempt made
\* during the call fails, even when a previously issued token has not yet
\* expired.
C17_NoTokenWithoutAuthentication ==
    \A f \in TokenCalls :
        /\ (f.nAuthTok = 0 /\ f.retToken # None) => authenticated
        /\ (f.authSeen /\ ~f.authOk) =>
               /\ f.retToken = None
               /\ f.op = "get_access_token" => (f.pc = "done" /\ ~f.ret)

\* the renewal inside the buffer fails while the stored token is still
\* valid, and the call returns None
C17_Witness ==
    \E f \in TokenCalls :
        /\ Returned(f, "get_access_token")
        /\ f.authSeen /\ ~f.authOk
        /\ f.authPre.authenticated
        /\ f.authPre.access_token # None
        /\ f.authTime < f.authPre.token_expires_at
        /\ f.retToken = None

\* C18: after a failed authenticate() (first authentication, renewal near
\* expiry, re-authentication after a 401) the next get_access_token call
\* makes a new authenticate attempt, and when the last attempt of that call
\* succeeds the call hands out the stored token.
C18_FailureIsRetried ==
    \A f \in TokenCalls :
        f.afterFailure =>
            /\ f.nAuthTok >= 1
            /\ (f.authSeen /\ f.authOk /\ f.pc # "authenticate") =>
                   (f.retToken # None /\ f.retToken = access_token)

\* a call that began after a failure, authenticated and returned a token
C18_Witness ==
    \E f \in TokenCalls :
        /\ Returned(f, "get_access_token")
        /\ f.afterFailure
        /\ f.nAuthTok = 1
        /\ f.authOk
        /\ f.retToken # None

----------------------------------------------------------------------------
(* Concurrent use of the session *)

\* the coordinator's refresh and an entity's command run as separate
\* tasks of one event loop, each suspended at its own network await
ConcurrentTasks == {"t1", "t2"}

InitConcurrent ==
    /\ access_token = InitSession.access_token
    /\ refresh_token = InitSession.refresh_token
    /\ token_expires_at = InitSession.token_expires_at
    /\ authenticated = InitSession.authenticated
    /\ now = StartTime
    /\ devices = EmptyCache
    /\ last_update_success = TRUE
    /\ task = [t \in ConcurrentTasks |-> IdleFrame]
    /\ history = InitHistory
    /\ control = IdleControl
    /\ inventory = DevicePool
    /\ setup = NotSetUp
    /\ speed = NoSpeedCall

\* a call that has its result returns to its caller without another
\* await: no other task runs in between
NoneDone == \A t \in DOMAIN task : task[t].pc # "done"

\* one task sends commands while the other asks for tokens; every await
\* is a point where the other task may run
NextConcurrent ==
    \/ NoneDone /\ CallGetAccessToken("t2")
    \/ NoneDone /\ CallSendDeviceCommand("t1")
    \/ \E t \in DOMAIN task : NoneDone /\ AuthReply(t)
    \/ \E t \in DOMAIN task : NoneDone /\ CommandReply(t)
    \/ \E t \in DOMAIN task : NoneDone /\ CommandRetryReply(t)
    \/ \E t \in DOMAIN task : Return(t)

SpecConcurrent == InitConcurrent /\ [][NextConcurrent]_vars

\* C16: every device-list GET and command POST carries as bearer the
\* non-empty access token stored by a completed successful authenticate(),
\* and a call whose get_access_token yields no token sends no request.
C16_RequestsCarryIssuedToken ==
    \A f \in TokenCalls :
        /\ f.nReq >= 1 => (f.bearer # None /\ f.bearer \in history.issued)
        /\ (f.pc = "done" /\ f.retToken = None) =>
               f.nReq = (IF f.got401 THEN 1 ELSE 0)

\* C20: under any interleaving the stored access token and expiry come
\* from the same authenticate response, and every token handed to a caller
\* was stored by a completed successful authentication.
C20_SessionConsistentUnderConcurrency ==
    /\ <<access_token, token_expires_at>> = history.last_good
    /\ \A f \in TokenCalls :
           f.retToken # None => f.retToken \in history.issued

----------------------------------------------------------------------------
(* Control actions of the entities *)

\* the polling refresh runs between the control actions
PollingRefresh(t) == control.pc = "idle" /\ CallRefresh(t)

\* the sub-devices of the device the entity of a home is made for
HomeSubDevices(platform) ==
    CASE platform \in {"light", "switch"} ->
            <<SubDevice("s1", SUBDEVICE_SWITCH_BINARY, "readWrite", "on")>>
      [] platform = "climate" ->
            <<SubDevice("s1", SUBDEVICE_THERMOSTAT_MODE, "readWrite", "heat"),
              SubDevice("s2", SUBDEVICE_THERMOSTAT_SETPOINT, "readWrite",
                        "22")>>
      [] platform = "fan" ->
            <<SubDevice("s1", SUBDEVICE_SWITCH_BINARY, "readWrite", "on"),
              SubDevice("s2", SUBDEVICE_FAN_MODE, "readWrite", "bypass")>>

\* the device class a platform serves
ClassOf(platform) ==
    CASE platform = "light" -> DEVICE_TYPE_LIGHT
      [] platform = "climate" -> DEVICE_TYPE_BOILER
      [] platform = "switch" -> DEVICE_TYPE_SWITCH
      [] platform = "fan" -> DEVICE_TYPE_FAN

\* the same sub-devices under new subUuids, as after the vendor replaced
\* the hardware behind the device
Rewired(subs) ==
    [i \in DOMAIN subs |-> [subs[i] EXCEPT !.subUuid = IF @ = "s1" THEN "r1"
                                                                  ELSE "r2"]]

\* the records the vendor's list of a home is made of: the device of the
\* entity, the same device with its sub-devices replaced, another device
HomePool(platform) ==
    {Device(EntityRoot, ClassOf(platform), HomeSubDevices(platform)),
     Device(EntityRoot, ClassOf(platform),
            Rewired(HomeSubDevices(platform))),
     Device("d2", ClassOf(platform), HomeSubDevices(platform))}

\* the kinds of entity the control runs are made for; the fan entity is
\* kept although PLATFORMS never loads its platform
ControlPlatforms == {"light", "climate", "switch", "fan"}

\* the integration after a setup that found the device of the entity: the
\* session is the one the first refresh authenticated, the cache holds
\* the device and its platform has constructed the entity
InitControl ==
    \E platform \in ControlPlatforms :
      LET first == [u \in {EntityRoot} |->
                      Device(EntityRoot, ClassOf(platform),
                             HomeSubDevices(platform))]
      IN  /\ access_token = "tokA"
          /\ refresh_token = "refA"
          /\ token_expires_at = StartTime + DEFAULT_EXPIRE_IN
          /\ authenticated = TRUE
          /\ now = StartTime
          /\ devices = first
          /\ last_update_success = TRUE
          /\ task = [t \in Tasks |-> IdleFrame]
          /\ history = [issued |-> {"tokA"},
                        last_good |-> <<"tokA", StartTime + DEFAULT_EXPIRE_IN>>,
                        failed |-> FALSE]
          /\ control = IdleControl
          /\ inventory = HomePool(platform)
          /\ setup = [pc |-> "done", platforms |-> <<platform>>,
                      entities |-> PlatformEntities(platform, first),
                      refreshes |-> 1, first |-> first]
          /\ speed = NoSpeedCall

NextControl ==
    \/ \E t \in DOMAIN task : SendCommand(t)
    \/ \E t \in DOMAIN task : SendCommandResumes(t)
    \/ \E t \in DOMAIN task : PatchingCommand(t)
    \/ \E t \in DOMAIN task : PatchingCommandResumes(t)
    \/ \E t \in DOMAIN task : SettleDelay(t)
    \/ \E t \in DOMAIN task : RequestedRefresh(t)
    \/ \E t \in DOMAIN task : ControlReturn(t)
    \/ \E t \in DOMAIN task : PollingRefresh(t)
    \/ \E t \in DOMAIN task : AuthReply(t)
    \/ \E t \in DOMAIN task : DeviceListReply(t)
    \/ \E t \in DOMAIN task : DeviceListRetryReply(t)
    \/ \E t \in DOMAIN task : CommandReply(t)
    \/ \E t \in DOMAIN task : CommandRetryReply(t)
    \/ \E t \in DOMAIN task : Return(t)

SpecControl == InitControl /\ [][NextControl]_vars

\* the sends of a light or switch control action are over
FallbackEnded == control.kind \in {"light", "switch"} /\ control.pc = "done"

\* the positions at which the action sent the encoding v
SentAt(v) == {i \in DOMAIN control.results : control.sent[i] = v}

\* C12: a light control action whose first send, with value "on", fails
\* and whose send with value "true" succeeds ends successfully after
\* exactly 2 calls of send_device_command.
C12_TrueSucceedsOnSecondCall ==
    ( /\ FallbackEnded
      /\ control.value = "on"
      /\ ~control.results[1]
      /\ \E i \in SentAt("true") : control.results[i] )
    => (control.success /\ Len(control.sent) = 2)

\* the table of the claim
C13_Table(value) ==
    IF value = "on" THEN <<"on", "true", "True", "1", "ON">>
    ELSE <<"off", "false", "False", "0", "OFF">>

\* C13: after the first send of a light or switch action fails the
\* encodings of the table are sent one at a time in table order, nothing
\* is sent after the first success, and the action ends as a failure only
\* when every encoding of the table was tried and failed.
C13_FallbackInTableOrder ==
    control.kind \in {"light", "switch"} /\ control.pc \in {"sending", "done"} =>
        LET n == Len(control.sent)
            table == C13_Table(control.value)
        IN  /\ control.sent = <<control.value>> \o SubSeq(table, 1, n - 1)
            /\ n - 1 <= Len(table)
            /\ \A i \in DOMAIN control.results :
                   i < n => ~control.results[i]
            /\ control.pc = "done" =>
                   /\ Len(control.results) = n
                   /\ control.success = control.results[n]
                   /\ ~control.success => n - 1 = Len(table)

\* the fourth encoding succeeds after the requested value and three
\* encodings of the table failed
C13_Witness ==
    /\ FallbackEnded
    /\ control.value = "off"
    /\ control.sent = <<"off", "off", "false", "False", "0">>
    /\ control.success

\* the sub-device of the cached record that a reader finds under sub_uuid
ReadBack(sub_uuid) ==
    LET dev == get_device_by_uuid(devices, EntityRoot)
    IN  dev.subDevice[First(SubIndexes(dev, sub_uuid))]

\* the patch of a successful boiler or fan command is in the cache and no
\* refresh has replaced the cache since
PatchInForce ==
    /\ control.kind \in {"climate", "fan"}
    /\ control.success
    /\ \/ control.pc = "done"
       \/ control.pc = "refresh" /\ \A f \in Frames : f.pc # "done"

\* C14: after a successful boiler or fan command whose patch was applied,
\* get_device_by_uuid returns the commanded value for every sub-device the
\* command changed, until the next refresh replaces the cache.
C14_PatchReadsBack ==
    PatchInForce =>
        \A i \in DOMAIN control.payloads :
            LET p == control.payloads[i]
            IN  SubIndexes(get_device_by_uuid(devices, EntityRoot),
                           p.subUuid) # {}
                => ReadBack(p.subUuid).value = p.value

\* the mode sub-device of the cached boiler carries the value of the
\* command while the refresh that follows it is under way
C14_Witness ==
    /\ PatchInForce
    /\ control.kind = "climate"
    /\ control.pc = "refresh"
    /\ control.request = <<Change(SUBDEVICE_THERMOSTAT_MODE, DEVICE_OFF)>>
    /\ get_device_by_uuid(devices, EntityRoot) # NotADict
    /\ SubIndexes(get_device_by_uuid(devices, EntityRoot), "s1") # {}
    /\ ReadBack("s1").value = DEVICE_OFF

----------------------------------------------------------------------------
(* The cache across refreshes *)

\* C30: once the cache is populated no refresh leaves it empty: not an
\* empty fetch, not a failed fetch, not a non-empty list in which no record
\* carries a rootUuid.
C30_PopulatedCacheStaysPopulated ==
    \A f \in Frames :
        (Returned(f, "refresh") /\ f.pre # EmptyCache) => devices # EmptyCache

\* C28: get_device_list returns the device records of a success response
\* in both shapes, nested under resource.devices.object and flat under
\* resultBody.device.
C28_BothShapesReturned ==
    \A f \in Frames :
        (Returned(f, "get_device_list") /\ f.nReq >= 1 /\ ~ListFailed(f)) =>
            f.retList = f.carried

----------------------------------------------------------------------------
(* Integration setup *)

\* the home of the setup runs: one device of each class with its writable
\* sub-devices, and a light whose switch cannot be written
SetupPool ==
    {Device("d1", DEVICE_TYPE_LIGHT,
            <<SubDevice("s1", SUBDEVICE_SWITCH_BINARY, "readWrite", "on")>>),
     Device("d2", DEVICE_TYPE_BOILER,
            <<SubDevice("s1", SUBDEVICE_THERMOSTAT_MODE, "readWrite", "heat"),
              SubDevice("s2", SUBDEVICE_THERMOSTAT_SETPOINT, "readWrite", "22")>>),
     Device("d3", DEVICE_TYPE_SWITCH,
            <<SubDevice("s1", SUBDEVICE_SWITCH_BINARY, "readWrite", "on")>>),
     Device("d4", DEVICE_TYPE_FAN,
            <<SubDevice("s1", SUBDEVICE_SWITCH_BINARY, "readWrite", "on"),
              SubDevice("s2", SUBDEVICE_FAN_MODE, "readWrite", "2")>>),
     Device("d5", DEVICE_TYPE_LIGHT,
            <<SubDevice("s1", SUBDEVICE_SWITCH_BINARY, "read", "on")>>)}

InitSetup ==
    /\ access_token = InitSession.access_token
    /\ refresh_token = InitSession.refresh_token
    /\ token_expires_at = InitSession.token_expires_at
    /\ authenticated = InitSession.authenticated
    /\ now = StartTime
    /\ devices = EmptyCache
    /\ last_update_success = TRUE
    /\ task = [t \in Tasks |-> IdleFrame]
    /\ history = InitHistory
    /\ control = IdleControl
    /\ inventory = SetupPool
    /\ setup = NotSetUp
    /\ speed = NoSpeedCall

NextSetup ==
    \/ \E t \in DOMAIN task : SetupEntry(t)
    \/ \E t \in DOMAIN task : FirstRefreshDone(t)
    \/ \E t \in DOMAIN task : PlatformSetup(t)
    \/ \E t \in DOMAIN task : PlatformRefreshed(t)
    \/ \E t \in DOMAIN task : AuthReply(t)
    \/ \E t \in DOMAIN task : DeviceListReply(t)
    \/ \E t \in DOMAIN task : DeviceListRetryReply(t)

SpecSetup == InitSetup /\ [][NextSetup]_vars

\* C24: the first coordinator refresh has completed before any entity
\* platform is set up, so no entity is registered before it finished.
C24_FirstRefreshBeforePlatforms ==
    (\/ setup.pc \in {"platforms", "platform_refresh", "done"}
     \/ setup.platforms # <<>>
     \/ setup.entities # {})
    => setup.refreshes >= 1

\* the light platform has added an entity for a device of the first refresh
C24_Witness ==
    /\ setup.platforms = <<"light">>
    /\ setup.refreshes = 1
    /\ \E e \in setup.entities : e.root_uuid \in DOMAIN setup.first

\* the platform that serves a device class
PlatformOf(class) ==
    CASE class = DEVICE_TYPE_LIGHT -> "light"
      [] class = DEVICE_TYPE_BOILER -> "climate"
      [] class = DEVICE_TYPE_SWITCH -> "switch"
      [] class = DEVICE_TYPE_FAN -> "fan"

\* the device has the writable sub-devices its entity needs
HasRequiredSubdevices(dev) ==
    IF dev.commaxDevice = DEVICE_TYPE_BOILER
    THEN \/ Writable(dev, SUBDEVICE_THERMOSTAT_MODE) # {}
         \/ Writable(dev, SUBDEVICE_THERMOSTAT_SETPOINT) # {}
    ELSE Writable(dev, SUBDEVICE_SWITCH_BINARY) # {}

\* C25: once setup is over, every cached device of class light, boiler,
\* standbyPowerSwitch or fanSystem that has the required writable
\* sub-devices has its platform set up and an entity registered (for a
\* cache that did not change while the platforms were set up).
C25_AllFourKindsExposed ==
    (setup.pc = "done" /\ devices = setup.first) =>
        \A u \in DOMAIN devices :
            (/\ devices[u].commaxDevice \in
                   {DEVICE_TYPE_LIGHT, DEVICE_TYPE_BOILER,
                    DEVICE_TYPE_SWITCH, DEVICE_TYPE_FAN}
             /\ HasRequiredSubdevices(devices[u]))
            => /\ \E i \in DOMAIN setup.platforms :
                     setup.platforms[i] = PlatformOf(devices[u].commaxDevice)
               /\ \E e \in setup.entities :
                     /\ e.root_uuid = u
                     /\ e.platform = PlatformOf(devices[u].commaxDevice)

----------------------------------------------------------------------------
(* The commands of the entities *)

\* a control action has handed device_data to send_device_command and the
\* call has not returned into the entity
CommandInFlight == control.pc = "sending"

\* the record the entity of the running control action was constructed from
Owner == setup.first[control.entity.root_uuid]

\* C21: every device_data handed to send_device_command carries the
\* owning device's rootUuid, nickname and rootDevice and a subDevice array
\* with one element per change asked for and no other, each with the
\* subUuid, the sort, the value being sent, funcCommand "set" and type
\* "readWrite".
C21_PayloadOnlyChangedSubdevices ==
    CommandInFlight =>
        LET c == control.command
        IN  /\ c.rootUuid = Owner.rootUuid
            /\ c.nickname = Owner.nickname
            /\ c.rootDevice = Owner.rootDevice
            /\ Len(c.subDevice) = Len(control.request)
            /\ \A i \in DOMAIN c.subDevice :
                 /\ c.subDevice[i].sort = control.request[i].sort
                 /\ c.subDevice[i].subUuid # None
                 /\ c.subDevice[i].funcCommand = "set"
                 /\ c.subDevice[i].type = "readWrite"
                 /\ c.subDevice[i].value =
                       IF control.kind \in {"light", "switch"}
                       THEN control.sent[Len(control.sent)]
                       ELSE control.request[i].value

\* a boiler's temperature command is in flight: its subDevice array holds
\* the setpoint and not the mode
C21_Witness ==
    /\ CommandInFlight
    /\ control.kind = "climate"
    /\ control.command.subDevice =
          <<SubPayload("s2", SUBDEVICE_THERMOSTAT_SETPOINT, "23")>>

\* C27: every command of an entity addresses, for each sort, the writable
\* sub-device that the scan of the record found when the entity was
\* constructed, whatever the cache holds when the command is built.
C27_TargetFixedAtRegistration ==
    CommandInFlight =>
        \A i \in DOMAIN control.command.subDevice :
            control.command.subDevice[i].subUuid =
                Selected(Owner, control.command.subDevice[i].sort,
                         control.kind \in {"light", "switch"})

\* a command is in flight that was built while the cache held the device
\* with its sub-devices replaced, and it addresses the sub-device of the
\* registration
C27_Witness ==
    /\ CommandInFlight
    /\ get_device_by_uuid(devices, EntityRoot) # NotADict
    /\ \A i \in DOMAIN devices[EntityRoot].subDevice :
          devices[EntityRoot].subDevice[i].subUuid \in {"r1", "r2"}
    /\ control.command.subDevice[1].subUuid = "s1"

\* C22: a control action that sent a command goes on to the coordinator
\* refresh request, whether the command succeeded or every attempt
\* failed: the sends, which are finitely many, and the wait that follows
\* them are left by no step other than the request.
C22_RefreshFollowsCommand ==
    [][(control.pc \in {"sending", "done"}
        /\ control'.pc \notin {"sending", "done"})
       => control'.pc = "refresh"]_vars

\* every attempt of a switch failed and the refresh has been requested
C22_Witness ==
    /\ control.pc = "refresh"
    /\ control.kind = "switch"
    /\ ~control.success

\* C23: the refresh that follows a command is requested only after the
\* settle delay has elapsed.
C23_RefreshAfterSettleDelay ==
    control.pc = "refresh" => control.slept

----------------------------------------------------------------------------
(* The speed of the fan *)

\* the most speed options a fan offers
MaxOptions == 4

\* the percentages asked for: none, negative, every step of the scale and
\* one beyond it
Percentages == -1 .. 101

\* the names of the speed options, slowest first
SpeedNames == <<"low", "medium", "high", "turbo", "max">>

Min(a, b) == IF a <= b THEN a ELSE b
Max(a, b) == IF a >= b THEN a ELSE b

\* a slip that rounds the quotient down
percentage_to_speed_floor(speed_options, percentage) ==
    IF speed_options = <<>> \/ percentage <= 0 THEN None
    ELSE LET n == Len(speed_options)
             index == ((percentage * n) \div 100) - 1
         IN  speed_options[Max(0, Min(index, n - 1)) + 1]

\* CommaxFan._percentage_to_speed: step = 100 / len(options),
\* index = ceil(percentage / step) - 1 clamped to 0 .. len - 1. The code
\* divides in floating point; for fewer than 58 options the ceiling it
\* gets is that of the exact quotient percentage * len / 100, which is
\* computed here. Sequences count from 1, lists from 0.
percentage_to_speed(speed_options, percentage) ==
    IF speed_options = <<>> \/ percentage <= 0 THEN None
    ELSE LET n == Len(speed_options)
             index == ((percentage * n + 99) \div 100) - 1
         IN  speed_options[Max(0, Min(index, n - 1)) + 1]

\* the elements of a sequence
Range(seq) == {seq[i] : i \in DOMAIN seq}

\* round() of Python for the quotient num / den of two positive whole
\* numbers: to the nearest whole number, a half to the even neighbour
RoundHalfEven(num, den) ==
    LET q == num \div den
        r == num % den
    IN  IF 2 * r < den THEN q
        ELSE IF 2 * r > den THEN q + 1
        ELSE IF q % 2 = 0 THEN q ELSE q + 1

\* CommaxFan._speed_to_percentage: None without options or for a speed
\* that is not an option, else round((index + 1) * (100 / len)) clamped to
\* 1 .. 100. The code multiplies in floating point; for fewer than 24
\* options its rounding is that of the exact product, computed here.
speed_to_percentage(speed_options, s) ==
    IF speed_options = <<>> \/ s \notin Range(speed_options)
    THEN NoPercentage
    ELSE LET n == Len(speed_options)
             position == CHOOSE i \in DOMAIN speed_options :
                            /\ speed_options[i] = s
                            /\ \A j \in DOMAIN speed_options :
                                   speed_options[j] = s => i <= j
         IN  Max(1, Min(100, RoundHalfEven(position * 100, n)))

\* a fan with any number of speed options is asked for any percentage and
\* reports any speed
InitSpeed ==
    /\ access_token = InitSession.access_token
    /\ refresh_token = InitSession.refresh_token
    /\ token_expires_at = InitSession.token_expires_at
    /\ authenticated = InitSession.authenticated
    /\ now = StartTime
    /\ devices = EmptyCache
    /\ last_update_success = TRUE
    /\ task = [t \in Tasks |-> IdleFrame]
    /\ history = InitHistory
    /\ control = IdleControl
    /\ inventory = DevicePool
    /\ setup = NotSetUp
    /\ \E n \in 0 .. MaxOptions, p \in Percentages :
         \E s \in Range(SubSeq(SpeedNames, 1, n)) \cup {"unknown"} :
            speed = [NoSpeedCall EXCEPT
                       !.options = SubSeq(SpeedNames, 1, n),
                       !.percentage = p,
                       !.current = s]

\* _percentage_to_speed is called
PercentageToSpeed ==
    /\ ~speed.called
    /\ speed' = [speed EXCEPT
                   !.called = TRUE,
                   !.selected = percentage_to_speed(speed.options,
                                                    speed.percentage)]
    /\ UNCHANGED <<authVars, now, devices, last_update_success, task,
                   history, control, inventory, setup>>

\* _speed_to_percentage is called, as the percentage property does for
\* the current speed
SpeedToPercentage ==
    /\ ~speed.converted
    /\ speed' = [speed EXCEPT
                   !.converted = TRUE,
                   !.percent = speed_to_percentage(speed.options,
                                                   speed.current)]
    /\ UNCHANGED <<authVars, now, devices, last_update_success, task,
                   history, control, inventory, setup>>

\* the percentage reported for the current speed is asked for again, as
\* async_set_percentage does with a percentage the host read from the
\* entity
PercentageComesBack ==
    /\ speed.converted /\ speed.percent # NoPercentage
    /\ ~speed.returned
    /\ speed' = [speed EXCEPT
                   !.returned = TRUE,
                   !.back = percentage_to_speed(speed.options,
                                                speed.percent)]
    /\ UNCHANGED <<authVars, now, devices, last_update_success, task,
                   history, control, inventory, setup>>

NextSpeed ==
    \/ PercentageToSpeed
    \/ SpeedToPercentage
    \/ PercentageComesBack

SpecSpeed == InitSpeed /\ [][NextSpeed]_vars

\* the least whole number that is at least percentage / (100 / n)
CeilingOfQuotient(percentage, n) ==
    CHOOSE k \in 0 .. 2 * n : /\ k * 100 >= percentage * n
                              /\ \A j \in 0 .. 2 * n :
                                     j * 100 >= percentage * n => k <= j

\* C26: for n speed options and a percentage p in 1..100 the mapping
\* selects the option at position ceil(p / (100/n)), counted from 1 and
\* clamped to 1..n; it selects nothing for p <= 0 or without options.
C26_CeilingClampedSelection ==
    speed.called =>
        LET n == Len(speed.options)
            p == speed.percentage
        IN  /\ (n = 0 \/ p <= 0) => speed.selected = None
            /\ (n > 0 /\ p \in 1 .. 100) =>
                  speed.selected =
                     speed.options[Max(1, Min(CeilingOfQuotient(p, n), n))]

\* 3 options and 50 percent: the 2nd option is selected
C26_Witness ==
    /\ speed.called
    /\ Len(speed.options) = 3
    /\ speed.percentage = 50
    /\ speed.selected = speed.options[2]

----------------------------------------------------------------------------
(* A command while a refresh is under way *)

\* a boiler entity after setup, with the polling refresh and the control
\* actions in tasks of their own; the vendor's list holds the boiler as it
\* was before any command
InitInFlight ==
    LET boiler == Device(EntityRoot, DEVICE_TYPE_BOILER,
                         HomeSubDevices("climate"))
        first == [u \in {EntityRoot} |-> boiler]
    IN  /\ access_token = "tokA"
        /\ refresh_token = "refA"
        /\ token_expires_at = StartTime + DEFAULT_EXPIRE_IN
        /\ authenticated = TRUE
        /\ now = StartTime
        /\ devices = first
        /\ last_update_success = TRUE
        /\ task = [t \in ConcurrentTasks |-> IdleFrame]
        /\ history = [issued |-> {"tokA"},
                      last_good |-> <<"tokA", StartTime + DEFAULT_EXPIRE_IN>>,
                      failed |-> FALSE]
        /\ control = IdleControl
        /\ inventory = {boiler}
        /\ setup = [pc |-> "done", platforms |-> <<"climate">>,
                    entities |-> PlatformEntities("climate", first),
                    refreshes |-> 1, first |-> first]
        /\ speed = NoSpeedCall

\* the polling refresh has ended
RefreshReturns(t) ==
    /\ task[t].op = "refresh" /\ task[t].pc = "done"
    /\ task' = [task EXCEPT ![t] = IdleFrame]
    /\ UNCHANGED <<authVars, now, devices, last_update_success, history,
                   control, inventory, setup, speed>>

\* the polling refresh runs in t2 and a command of the entity in t1: the
\* command is given while the device list request of the polling refresh
\* awaits its reply, and every await is a point where the other task may
\* run; a call that has its result returns before another task runs. The
\* run is followed until the command has been answered and the polling
\* refresh has ended; the refresh the command schedules comes later.
NextInFlight ==
    \/ NoneDone /\ control.pc = "idle" /\ CallRefresh("t2")
    \/ NoneDone /\ ListRequestInFlight("t1") /\ PatchingCommand("t1")
    \/ PatchingCommandResumes("t1")
    \/ RefreshReturns("t2")
    \/ \E t \in DOMAIN task : NoneDone /\ AuthReply(t)
    \/ \E t \in DOMAIN task : NoneDone /\ DeviceListReply(t)
    \/ \E t \in DOMAIN task : NoneDone /\ DeviceListRetryReply(t)
    \/ \E t \in DOMAIN task : NoneDone /\ CommandReply(t)
    \/ \E t \in DOMAIN task : NoneDone /\ CommandRetryReply(t)

SpecInFlight == InitInFlight /\ [][NextInFlight]_vars

\* C29: after a successful command whose patch was applied while the
\* device list request of a refresh was in flight, the completion of that
\* refresh does not put the value from before the command back into the
\* patched sub-device.
C29_InFlightRefreshKeepsPatch ==
    ( /\ control.pc = "done"
      /\ control.success
      /\ control.overtook
      /\ task["t2"].op = "refresh" /\ task["t2"].pc = "done"
      /\ task["t2"].nReq = 1 )
    => \A i \in DOMAIN control.payloads :
          control.before[i] # control.payloads[i].value
          => CachedValue(devices, control.entity.root_uuid,
                         control.payloads[i].subUuid) # control.before[i]

----------------------------------------------------------------------------
(* What a light or switch reads back *)

\* the values CommaxLight.is_on and CommaxSwitch.is_on take for on
possible_on_values == {DEVICE_ON, "1", "true", "True", "ON", "on"}

\* a slip that takes only the value the vendor was seen to return for on
is_on_exact(e, devs) ==
    /\ e.switch_subdevice # None
    /\ CachedValue(devs, e.root_uuid, e.switch_subdevice) = DEVICE_ON

\* CommaxLight.is_on and CommaxSwitch.is_on: the value of the first
\* sub-device of the cached record that has the entity's subUuid is one of
\* possible_on_values; off without the sub-device or the record
is_on(e, devs) ==
    /\ e.switch_subdevice # None
    /\ get_device_by_uuid(devs, e.root_uuid) # NotADict
    /\ SubIndexes(get_device_by_uuid(devs, e.root_uuid),
                  e.switch_subdevice) # {}
    /\ CachedValue(devs, e.root_uuid, e.switch_subdevice)
          \in possible_on_values

\* the cache after a refresh from a vendor that stored the value of the
\* command in flight and returns it as it was sent
StoredAsSent ==
    [u \in {control.command.rootUuid} |->
        [Owner EXCEPT !.subDevice =
            [i \in DOMAIN control.command.subDevice |->
                SubDevice(control.command.subDevice[i].subUuid,
                          control.command.subDevice[i].sort,
                          "readWrite",
                          control.command.subDevice[i].value)]]]

\* C37: every encoding a light or switch sends for on is read back by
\* is_on as on and every encoding it sends for off as off, if the vendor
\* stores and returns the value as it was sent.
C37_SentEncodingsReadBack ==
    (CommandInFlight /\ control.kind \in {"light", "switch"}) =>
        (is_on(control.entity, StoredAsSent) <=> control.value = DEVICE_ON)

\* the encoding "1" for on is in flight
C37_Witness ==
    /\ CommandInFlight
    /\ control.kind = "switch"
    /\ control.value = DEVICE_ON
    /\ control.command.subDevice[1].value = "1"
    /\ is_on(control.entity, StoredAsSent)

----------------------------------------------------------------------------
(* A command that fails *)

\* C31: a boiler or fan control action whose command fails leaves the
\* cache as it was: no step of it, from the call of send_device_command
\* to the return of FALSE and the wait for the refresh, changes devices.
C31_FailedCommandKeepsCache ==
    [][(/\ control'.kind \in {"climate", "fan"}
        /\ control'.pc \in {"sending", "done"}
        /\ ~(control'.pc = "done" /\ control'.success))
       => devices' = devices]_vars

\* a boiler command has failed and the cached record holds the values it
\* held before
C31_Witness ==
    /\ control.kind = "climate"
    /\ control.pc = "done"
    /\ ~control.success
    /\ control.request = <<Change(SUBDEVICE_THERMOSTAT_MODE, DEVICE_OFF)>>
    /\ CachedValue(devices, EntityRoot, "s1") = "heat"

----------------------------------------------------------------------------
(* The cost of a light or switch action *)

\* the calls of send_device_command the running control action has made
CommandCalls == Len(control.sent)

\* C32: a light or switch control action makes at most 6 calls of
\* send_device_command, its sends are over once the sixth has returned,
\* and no call makes more than 2 command POSTs: at most 12 POSTs in all.
C32_AtMostSixCallsTwelvePosts ==
    control.kind \in {"light", "switch"} =>
        /\ CommandCalls <= 6
        /\ Len(control.results) = 6 => control.pc # "sending"
        /\ \A f \in Frames : f.op = "send_device_command" => f.nReq <= 2

\* the sixth call of a light action has been answered 401 and has made its
\* second POST after five calls failed
C32_Witness ==
    /\ CommandInFlight
    /\ control.kind = "light"
    /\ CommandCalls = 6
    /\ Len(control.results) = 5
    /\ \E f \in Frames : /\ f.op = "send_device_command"
                         /\ f.got401 /\ f.nReq = 2

\* C33: for every option s of a non-empty list of distinct speed options,
\* _percentage_to_speed(_speed_to_percentage(s)) = s.
C33_SpeedRoundTrips ==
    (speed.returned /\ speed.current \in Range(speed.options))
        => speed.back = speed.current

----------------------------------------------------------------------------
(* The service calls of a boiler *)

\* the boiler as the vendor lists it while it heats and while it is off,
\* and another device
BoilerPool ==
    {Device(EntityRoot, DEVICE_TYPE_BOILER, HomeSubDevices("climate")),
     Device(EntityRoot, DEVICE_TYPE_BOILER,
            <<SubDevice("s1", SUBDEVICE_THERMOSTAT_MODE, "readWrite", "off"),
              SubDevice("s2", SUBDEVICE_THERMOSTAT_SETPOINT, "readWrite",
                        "22")>>),
     Device("d2", DEVICE_TYPE_BOILER, HomeSubDevices("climate"))}

\* the integration after a setup that found the boiler
InitClimate ==
    LET first == [u \in {EntityRoot} |->
                    Device(EntityRoot, DEVICE_TYPE_BOILER,
                           HomeSubDevices("climate"))]
    IN  /\ access_token = "tokA"
        /\ refresh_token = "refA"
        /\ token_expires_at = StartTime + DEFAULT_EXPIRE_IN
        /\ authenticated = TRUE
        /\ now = StartTime
        /\ devices = first
        /\ last_update_success = TRUE
        /\ task = [t \in Tasks |-> IdleFrame]
        /\ history = [issued |-> {"tokA"},
                      last_good |-> <<"tokA", StartTime + DEFAULT_EXPIRE_IN>>,
                      failed |-> FALSE]
        /\ control = IdleControl
        /\ inventory = BoilerPool
        /\ setup = [pc |-> "done", platforms |-> <<"climate">>,
                    entities |-> PlatformEntities("climate", first),
                    refreshes |-> 1, first |-> first]
        /\ speed = NoSpeedCall

\* the handlers of the boiler entity, the refresh they schedule (followed
\* once the handler has ended) and the polling refresh between the calls
NextClimate ==
    \/ \E t \in DOMAIN task : SetTemperature(t)
    \/ \E t \in DOMAIN task : SetHvacMode(t)
    \/ \E t \in DOMAIN task : ClimateResumes(t)
    \/ \E t \in DOMAIN task : HandlerReturns(t)
    \/ \E t \in DOMAIN task : SettleDelay(t)
    \/ \E t \in DOMAIN task : RequestedRefresh(t)
    \/ \E t \in DOMAIN task : ControlReturn(t)
    \/ \E t \in DOMAIN task : PollingRefresh(t)
    \/ \E t \in DOMAIN task : AuthReply(t)
    \/ \E t \in DOMAIN task : DeviceListReply(t)
    \/ \E t \in DOMAIN task : DeviceListRetryReply(t)
    \/ \E t \in DOMAIN task : CommandReply(t)
    \/ \E t \in DOMAIN task : CommandRetryReply(t)
    \/ \E t \in DOMAIN task : Return(t)

SpecClimate == InitClimate /\ [][NextClimate]_vars

\* the running handler has sent a command of the given sort
Sent(sort) ==
    \/ CommandInFlight /\ control.command.subDevice[1].sort = sort
    \/ \E i \in DOMAIN control.log : control.log[i].sort = sort

\* C34: async_set_temperature sends no setpoint command when the request's
\* hvac_mode is OFF, nor when the request has no hvac_mode and hvac_mode
\* read OFF from the cache; with hvac_mode OFF it sends the mode command
\* and nothing else.
C34_NoSetpointWhileOff ==
    control.call.handler = "set_temperature" =>
        /\ (\/ control.call.hvac_mode = "off"
            \/ control.call.hvac_mode = None /\ ~control.heat)
           => ~Sent(SUBDEVICE_THERMOSTAT_SETPOINT)
        /\ control.call.hvac_mode = "off" =>
              /\ Len(control.log) <= 1
              /\ control.pc = "done" =>
                    /\ Len(control.log) = 1
                    /\ control.log[1].sort = SUBDEVICE_THERMOSTAT_MODE
                    /\ control.log[1].value = DEVICE_OFF

\* a call with hvac_mode OFF and a temperature has ended with the mode
\* command as its only command
C34_Witness ==
    /\ control.call = [handler |-> "set_temperature", hvac_mode |-> "off",
                       temperature |-> "23"]
    /\ control.pc = "done"
    /\ control.log = <<[sort |-> SUBDEVICE_THERMOSTAT_MODE,
                        value |-> DEVICE_OFF, result |-> TRUE]>>

\* async_set_temperature was called with hvac_mode HEAT and a temperature
\* for a boiler that is in the cache
HeatAndTemperature ==
    /\ control.call.handler = "set_temperature"
    /\ control.call.hvac_mode = "heat"
    /\ control.call.temperature # None
    /\ control.present

C36_AbsentDeviceNoEffect ==
    [][(control'.call # NoCall /\ ~control'.present)
       => /\ control'.pc = "returned"
          /\ control'.command = NoCommand
          /\ control'.log = <<>>
          /\ control'.scheduled = 0
          /\ devices' = devices
          /\ \A t \in DOMAIN task : task'[t].op # "send_device_command"]_vars

\* async_set_temperature with hvac_mode HEAT and a temperature has
\* returned at once because the cache holds another device only
C36_Witness ==
    /\ control.pc = "returned"
    /\ ~control.present
    /\ control.call = [handler |-> "set_temperature", hvac_mode |-> "heat",
                       temperature |-> "23"]
    /\ DOMAIN devices = {"d2"}

====
